---- MODULE Spec2Model ----
(***************************************************************************)
(* Health / payment-verification monitor of the click-clack-cash-flow      *)
(* service: src/core/server_monitor.py, src/core/payment_verifier.py and   *)
(* the control surface of src/core/main.py.                                *)
(*                                                                         *)
(* The monitors run on one asyncio event loop.  A coroutine runs without   *)
(* interruption between two awaits that suspend, so one action of this     *)
(* module is the code between two suspension points.                       *)
(***************************************************************************)
EXTENDS Integers, Sequences, FiniteSets, TLC

\* ------------------------------------------------------------------ bounds
MaxOps == 4          \* poll cycles begun plus restart() calls, in one run
MaxAppends == 102    \* _add_alert calls per monitor in the alert-list driver
MaxHours == 26       \* hours the clock of the alert-window run advances
MaxClockAlerts == 2  \* alerts appended in the alert-window run
MaxVerifications == 3  \* executions of verify_all_payments
MaxStatUpdates == 100  \* _update_payment_stats calls in the statistics run
MaxPushes == 52  \* probes of the latency-ring run
MaxDownOps == 5  \* cycles begun plus restart() calls of the down run
MaxWalletOps == 5  \* wallet operations counted by metrics["operations_count"]
FloatBits == 3  \* significand bits of the model's floats (binary64 has 53)

\* ------------------------------------------------------- program constants
AlertCapacity == 100         \* "Keep only last 100 alerts"
ResponseTimeCapacity == 50   \* response_times[server_name][-50:]
FailureThreshold == 3        \* stats["consecutive_failures"] >= 3
NoTime == -1                 \* None in last_check / last_success
AlertWindowHours == 24       \* timedelta(hours=24)

\* critical_services = ["stripe_api", "payment_processor"]
critical_services == <<"stripe_api", "payment_processor">>

\* ------------------------------------------------------------ environment
\* What one probe of an endpoint can come back with: an HTTP response with a
\* status code, or one of the three exception classes _check_server_health
\* catches.
Outcomes ==
    { [kind |-> "response", status |-> 200],
      [kind |-> "response", status |-> 500],
      [kind |-> "timeout", status |-> 0],
      [kind |-> "connection_error", status |-> 0],
      [kind |-> "error", status |-> 0] }

\* time.time() - start_time of a probe that got a response
Latencies == {1}

Ok200 == [kind |-> "response", status |-> 200]
Http500 == [kind |-> "response", status |-> 500]
Timeout == [kind |-> "timeout", status |-> 0]
ConnectionError == [kind |-> "connection_error", status |-> 0]

\* settings.monitored_servers together with what each endpoint can answer:
\* one critical target that can answer anything; the two critical targets;
\* a critical and a standard target; and the two-target scenario in which
\* svc_a always answers 200 and svc_b always times out.
Configs ==
    { [servers |-> {"stripe_api"},
       endpoint |-> [s \in {"stripe_api"} |-> Outcomes]],
      [servers |-> {"stripe_api", "payment_processor"},
       endpoint |-> [s \in {"stripe_api", "payment_processor"} |-> {Ok200, Timeout}]],
      [servers |-> {"payment_processor", "wallet_service"},
       endpoint |-> [s \in {"payment_processor", "wallet_service"} |->
                        IF s = "payment_processor"
                        THEN {Ok200, Http500}
                        ELSE {Ok200, ConnectionError}]],
      [servers |-> {"svc_a", "svc_b"},
       endpoint |-> [s \in {"svc_a", "svc_b"} |->
                        IF s = "svc_a" THEN {Ok200} ELSE {Timeout}]] }

\* settings.monitored_servers as config.py gives it, every endpoint answering
\* 200, and the same without the dex_connector entry.
DefaultServers == {"stripe_api", "payment_processor", "wallet_service", "dex_connector"}

PaymentConfigs ==
    { [servers |-> DefaultServers,
       endpoint |-> [s \in DefaultServers |-> {Ok200}]],
      [servers |-> DefaultServers \ {"dex_connector"},
       endpoint |-> [s \in DefaultServers \ {"dex_connector"} |-> {Ok200}]] }

\* What stripe.Charge.list can come back with: charges of the last hour,
\* none of the last hour, or an exception.
StripeApi == {"recent_charges", "no_recent_charges", "raises"}

\* What reading settings.wallet_data_file can give: non-empty JSON, empty
\* JSON, FileNotFoundError, or another exception (unreadable or not JSON).
WalletFile == {"data", "empty", "not_found", "raises"}

\* What the request to the dex_connector endpoint can give.
DefiResponse == {"status_200", "status_other", "raises"}

\* Executions of verify_all_payments.
Verifications == 1..MaxVerifications
\* calls of PaymentVerifier.restart(), and the loop tasks they and startup create
PvCalls == 1..MaxVerifications
PvLoops == 1..(MaxVerifications + 1)

\* Every restart() call creates one loop task; startup_event creates the first.
Calls == 1..MaxOps
Loops == 1..(MaxOps + 1)

VARIABLES
    \* configuration (settings)
    monitored_servers,   \* names of settings.monitored_servers
    endpoint,            \* server name -> outcomes its endpoint can produce
    \* ServerMonitor fields
    is_running,
    server_status,
    uptime_stats,
    response_times,
    alerts,
    \* PaymentVerifier fields
    pv_alerts,
    payment_stats,
    stripe_secret_key,   \* settings.stripe_secret_key is set
    \* executions of verify_all_payments
    pv_is_running,
    payment_methods,
    verify_pc,           \* execution -> "idle" | "defi_request" | "done"
    verify_locals,       \* execution in progress -> stripe_status, wallet_status
    \* asyncio task of the payment verifier
    pv_loop_pc,          \* loop task -> "absent" | "scheduled" | "verifying"
                         \*   | "checking_methods"
                         \*   | "sleeping" | "backoff" | "exited"
    pv_loop_exec,        \* loop task -> the execution it awaits, 0 if none
    pv_restart_pc,       \* restart() call -> "idle" | "sleeping" | "returned"
    \* asyncio tasks of the server monitor
    started,             \* startup_event has run
    loop_pc,             \* loop task -> "absent" | "scheduled" | "probing" | "sleeping"
                         \*   | "backoff" | "exited"
    probe,               \* loop task -> server name -> "none" | "inflight" | "done"
    cycles,              \* loop task -> poll cycles completed
    pending,             \* _add_alert tasks created by create_task, not yet run (FIFO)
    restart_pc,          \* restart() call -> "idle" | "sleeping" | "returned"
    old_loops,           \* restart() call -> loop tasks alive when it was called
    now,                 \* datetime.utcnow()
    \* observers (not read by any modelled code)
    g_probes,            \* server name -> probes completed
    g_ok,                \* server name -> probes that got HTTP 200
    g_fail_run,          \* server name -> failing probes since the last HTTP 200
    drv_n,               \* alerts the alert-list driver gave ServerMonitor._add_alert
    pv_drv_n,            \* alerts the alert-list driver gave PaymentVerifier._add_alert
    g_raised,            \* execution in progress -> sub-checks that raised an exception
    g_alerted,           \* execution in progress -> alerts it appended
    g_last,              \* the execution that completed last: verdicts, raised, alerted
    reply,               \* the last query answered: the operation and what it returned
    \* WalletManager
    wallets,             \* self.wallets: user id -> wallet
    metrics              \* self.metrics

configVars == <<monitored_servers, endpoint>>
monitorVars == <<is_running, server_status, uptime_stats, response_times, alerts>>
paymentVars == <<pv_alerts>>
taskVars == <<started, loop_pc, probe, cycles, pending, restart_pc, old_loops, now>>
walletVars == <<wallets, metrics>>
ghostVars == <<g_probes, g_ok, g_fail_run, drv_n, pv_drv_n, reply>>
verifierVars == <<payment_stats, stripe_secret_key, pv_is_running, payment_methods,
                  verify_pc, verify_locals, pv_loop_exec, pv_restart_pc, g_raised, g_alerted,
                  g_last>>
vars == <<configVars, monitorVars, paymentVars, taskVars, ghostVars, verifierVars,
          pv_loop_pc, walletVars>>

\* ---------------------------------------------------------------- helpers
Min(a, b) == IF a < b THEN a ELSE b

\* seq[-n:] of Python
LastN(seq, n) == IF Len(seq) > n THEN SubSeq(seq, Len(seq) - n + 1, Len(seq)) ELSE seq

RECURSIVE SumFn(_, _)
SumFn(f, S) == IF S = {} THEN 0
               ELSE LET x == CHOOSE y \in S : TRUE IN f[x] + SumFn(f, S \ {x})

\* The keywords of the severity rules that occur in an alert type string.
Keywords(alert_type) ==
    CASE alert_type = "server_unhealthy" -> {}
      [] alert_type = "server_down" -> {"down"}
      [] alert_type = "critical_services_down" -> {"critical", "down"}
      [] alert_type = "payment_verification_failed" -> {"failed"}
      [] alert_type = "stripe_verification_failed" -> {"failed"}
      [] OTHER -> {}

\* An alert message: the names it mentions and the number it quotes.
Msg(names, n) == [names |-> names, n |-> n]

\* ------------------------------------------------------ datetime strings
\* Time is counted in hours.  datetime.isoformat() writes a time as a date
\* part and a time-of-day part; datetime.fromisoformat() reads them back.
isoformat(t) == [date |-> t \div 24, time |-> t % 24]

fromisoformat(str) == str.date * 24 + str.time

\* ------------------------------------------------- ServerMonitor._add_alert
ServerSeverity(alert_type) ==
    IF "critical" \in Keywords(alert_type) \/ "down" \in Keywords(alert_type)
    THEN "critical" ELSE "medium"

\* mutant: at capacity the newest alert is dropped instead of the oldest
M_add_alert_evict_newest(list, alert_type, message, t) ==
    LET appended == Append(list, [type |-> alert_type, message |-> message,
                                  timestamp |-> isoformat(t),
                                  severity |-> ServerSeverity(alert_type)])
    IN IF Len(appended) > AlertCapacity
       THEN SubSeq(appended, 1, AlertCapacity)
       ELSE appended

\* The new value of self.alerts after _add_alert(alert_type, message) at time t.
_add_alert(list, alert_type, message, t) ==
    LET alert == [type |-> alert_type, message |-> message, timestamp |-> isoformat(t),
                  severity |-> ServerSeverity(alert_type)]
        appended == Append(list, alert)
    IN IF Len(appended) > AlertCapacity
       THEN LastN(appended, AlertCapacity)
       ELSE appended

\* ----------------------------------------------- PaymentVerifier._add_alert
\* mutant: the verifier classifies the way the server monitor does
M_PaymentSeverity_server_rule(alert_type) ==
    IF "critical" \in Keywords(alert_type) \/ "down" \in Keywords(alert_type)
    THEN "critical" ELSE "medium"

PaymentSeverity(alert_type) ==
    IF "failed" \in Keywords(alert_type) THEN "high" ELSE "medium"

pv_add_alert(list, alert_type, message, t) ==
    LET alert == [type |-> alert_type, message |-> message, timestamp |-> isoformat(t),
                  severity |-> PaymentSeverity(alert_type)]
        appended == Append(list, alert)
    IN IF Len(appended) > AlertCapacity
       THEN LastN(appended, AlertCapacity)
       ELSE appended

\* ------------------------------------------------- ServerMonitor.get_alerts
\* mutant: the cutoff is taken a day too early (48 hours)
M_get_alerts_wide_window ==
    LET cutoff == now - 2 * AlertWindowHours
    IN SelectSeq(alerts, LAMBDA alert : fromisoformat(alert.timestamp) > cutoff)

get_alerts ==
    LET cutoff == now - AlertWindowHours
    IN SelectSeq(alerts, LAMBDA alert : fromisoformat(alert.timestamp) > cutoff)

\* ----------------------------------------------- PaymentVerifier.get_alerts
pv_get_alerts ==
    LET cutoff == now - AlertWindowHours
    IN SelectSeq(pv_alerts, LAMBDA alert : fromisoformat(alert.timestamp) > cutoff)

\* --------------------------------------- PaymentVerifier.verify_all_payments
\* The three sub-checks.  Each catches every exception itself and returns a
\* bool; only the Stripe one adds an alert when it catches one.
_verify_stripe_payments(api) ==
    IF ~stripe_secret_key
    THEN [result |-> FALSE, raised |-> FALSE, alert |-> FALSE]
    ELSE CASE api = "recent_charges" ->
                [result |-> TRUE, raised |-> FALSE, alert |-> FALSE]
           [] api = "no_recent_charges" ->
                [result |-> FALSE, raised |-> FALSE, alert |-> FALSE]
           [] api = "raises" ->
                [result |-> FALSE, raised |-> TRUE, alert |-> TRUE]

_verify_wallet_transactions(file) ==
    CASE file = "data" -> [result |-> TRUE, raised |-> FALSE, alert |-> FALSE]
      [] file = "empty" -> [result |-> FALSE, raised |-> FALSE, alert |-> FALSE]
      [] file = "not_found" -> [result |-> FALSE, raised |-> FALSE, alert |-> FALSE]
      [] file = "raises" -> [result |-> FALSE, raised |-> TRUE, alert |-> FALSE]

\* settings.monitored_servers.get("dex_connector")
dex_url == "dex_connector" \in monitored_servers

\* mutant: a non-200 answer of the configured endpoint fails the sub-check
M_verify_defi_operations_status_checked(response) ==
    IF ~dex_url
    THEN [result |-> TRUE, raised |-> FALSE, alert |-> FALSE]
    ELSE CASE response = "status_200" ->
                [result |-> TRUE, raised |-> FALSE, alert |-> FALSE]
           [] response = "status_other" ->
                [result |-> FALSE, raised |-> FALSE, alert |-> FALSE]
           [] response = "raises" ->
                [result |-> FALSE, raised |-> TRUE, alert |-> FALSE]

\* async with session.get(dex_url, timeout=5): what the request gave.
_verify_defi_operations(response) ==
    IF ~dex_url
    THEN [result |-> TRUE, raised |-> FALSE, alert |-> FALSE]
    ELSE CASE response = "status_200" ->
                [result |-> TRUE, raised |-> FALSE, alert |-> FALSE]
           [] response = "status_other" ->
                [result |-> TRUE, raised |-> FALSE, alert |-> FALSE]
           [] response = "raises" ->
                [result |-> FALSE, raised |-> TRUE, alert |-> FALSE]

\* mutant: a missing Stripe key is not excused
M_update_payment_stats_key_required(stats, stripe_ok, wallet_ok, defi_ok, t) ==
    IF stripe_ok /\ wallet_ok /\ defi_ok
    THEN [stats EXCEPT !.last_verification = t,
                       !.automated_count = @ + 1,
                       !.total_processed = @ + 1]
    ELSE [stats EXCEPT !.last_verification = t,
                       !.failed_count = @ + 1,
                       !.total_processed = @ + 1]

\* The new value of self.payment_stats after _update_payment_stats at time t.
_update_payment_stats(stats, stripe_ok, wallet_ok, defi_ok, t) ==
    IF (stripe_ok \/ ~stripe_secret_key) /\ wallet_ok /\ defi_ok
    THEN [stats EXCEPT !.last_verification = t,
                       !.automated_count = @ + 1,
                       !.total_processed = @ + 1]
    ELSE [stats EXCEPT !.last_verification = t,
                       !.failed_count = @ + 1,
                       !.total_processed = @ + 1]

\* --------------------------------------- PaymentVerifier.is_automation_active
\* a / b of Python: a ratio, or ZeroDivisionError
Quotient(a, b) ==
    IF b = 0
    THEN [error |-> "ZeroDivisionError", num |-> 0, den |-> 1]
    ELSE [error |-> "none", num |-> a, den |-> b]

\* 0.8
AutomationThreshold == [error |-> "none", num |-> 8, den |-> 10]

\* x > y for ratios with positive denominators
Greater(x, y) == x.num * y.den > y.num * x.den

\* mutant: a rate equal to the threshold counts as active
M_is_automation_active_at_least ==
    LET recent_success_rate ==
            IF payment_stats.total_processed > 0
            THEN Quotient(payment_stats.automated_count, payment_stats.total_processed)
            ELSE Quotient(0, 1)
    IN [error |-> recent_success_rate.error,
        value |-> /\ recent_success_rate.error = "none"
                  /\ ~Greater(AutomationThreshold, recent_success_rate)]

\* The call's result: the exception it raises, if any, and the value returned.
is_automation_active ==
    LET recent_success_rate ==
            IF payment_stats.total_processed > 0
            THEN Quotient(payment_stats.automated_count, payment_stats.total_processed)
            ELSE Quotient(0, 1)
    IN [error |-> recent_success_rate.error,
        value |-> /\ recent_success_rate.error = "none"
                  /\ Greater(recent_success_rate, AutomationThreshold)]

\* ------------------------------------------------------------------- Init
\* ServerMonitor.__init__ and PaymentVerifier.__init__, before startup_event.
InitMonitor(config) ==
    /\ monitored_servers = config.servers
    /\ endpoint = config.endpoint
    /\ is_running = FALSE
    /\ server_status = [s \in monitored_servers |-> FALSE]
    /\ response_times = [s \in monitored_servers |-> <<>>]
    /\ uptime_stats = [s \in monitored_servers |->
                          [total_checks |-> 0, successful_checks |-> 0,
                           last_check |-> NoTime, last_success |-> NoTime,
                           consecutive_failures |-> 0]]
    /\ alerts = <<>>
    /\ pv_alerts = <<>>
    /\ started = FALSE
    /\ loop_pc = [l \in Loops |-> "absent"]
    /\ probe = [l \in Loops |-> [s \in monitored_servers |-> "none"]]
    /\ cycles = [l \in Loops |-> 0]
    /\ pending = <<>>
    /\ restart_pc = [c \in Calls |-> "idle"]
    /\ old_loops = [c \in Calls |-> {}]
    /\ now = 0
    /\ g_probes = [s \in monitored_servers |-> 0]
    /\ g_ok = [s \in monitored_servers |-> 0]
    /\ g_fail_run = [s \in monitored_servers |-> 0]
    /\ drv_n = 0
    /\ pv_drv_n = 0
    /\ reply = [op |-> "none", value |-> <<>>]   \* no query answered yet
    /\ wallets = <<>>                            \* WalletManager(): no wallet file
    /\ metrics = [total_wallets |-> 0, total_balance |-> 0, last_update |-> 0,
                  operations_count |-> 0]

\* The locals of a verify_all_payments execution that is not in progress.
NoLocals == [stripe_status |-> FALSE, wallet_status |-> FALSE]

\* PaymentVerifier.__init__ (the alert list is with the monitor's above).
InitVerifier(key) ==
    /\ stripe_secret_key = key
    /\ payment_stats = [automated_count |-> 0, failed_count |-> 0,
                        last_verification |-> 0, total_processed |-> 0]
    /\ verify_pc = [e \in Verifications |-> "idle"]
    /\ verify_locals = [e \in Verifications |-> NoLocals]
    /\ pv_is_running = FALSE
    /\ payment_methods = <<>>
    /\ pv_loop_pc = [l \in PvLoops |-> "absent"]
    /\ pv_loop_exec = [l \in PvLoops |-> 0]
    /\ pv_restart_pc = [c \in PvCalls |-> "idle"]
    /\ g_raised = [e \in Verifications |-> {}]
    /\ g_alerted = [e \in Verifications |-> 0]
    /\ g_last = [stripe_status |-> FALSE, wallet_status |-> FALSE, defi_status |-> FALSE,
                 raised |-> {}, alerted |-> 0]

\* STRIPE_SECRET_KEY is unset unless the environment gives it.
Init == (\E c \in Configs : InitMonitor(c)) /\ InitVerifier(FALSE)

\* ------------------------------------------------------- task bookkeeping
Alive(l) == loop_pc[l] \in {"scheduled", "probing", "sleeping", "backoff"}

\* A loop task that has entered its while loop and has not left it.
Polling(l) == loop_pc[l] \in {"probing", "sleeping", "backoff"}

CyclesBegun == SumFn(cycles, Loops) + Cardinality({l \in Loops : loop_pc[l] = "probing"})

RestartsCalled == Cardinality({c \in Calls : restart_pc[c] # "idle"})

\* What the run has used of its bound.
Ops == CyclesBegun + RestartsCalled

\* asyncio.create_task(self.start_monitoring()): a new loop task, not yet run.
CreateLoopTask ==
    /\ \E l \in Loops : loop_pc[l] = "absent"
    /\ LET l == CHOOSE k \in Loops :
                    loop_pc[k] = "absent" /\ \A j \in Loops : j < k => loop_pc[j] # "absent"
       IN loop_pc' = [loop_pc EXCEPT ![l] = "scheduled"]

\* -------------------------------------- ServerMonitor._handle_server_failure
\* mutant: the alert threshold is one too low
M_handle_server_failure_threshold(server_name, reason, task) ==
    LET stats == uptime_stats[server_name]
        failures == stats.consecutive_failures + 1
    IN /\ server_status' = [server_status EXCEPT ![server_name] = FALSE]
       /\ uptime_stats' = [uptime_stats EXCEPT ![server_name] =
                              [stats EXCEPT !.total_checks = @ + 1,
                                            !.last_check = now,
                                            !.consecutive_failures = failures]]
       /\ pending' = IF failures >= FailureThreshold - 1
                     THEN Append(pending, [type |-> "server_down",
                                           message |-> Msg(<<server_name>>, failures),
                                           task |-> task])
                     ELSE pending
       /\ UNCHANGED <<response_times, alerts>>

\* mutant: the status of the failed server is left as it was
M_handle_server_failure_status_kept(server_name, reason, task) ==
    LET stats == uptime_stats[server_name]
        failures == stats.consecutive_failures + 1
    IN /\ server_status' = server_status
       /\ uptime_stats' = [uptime_stats EXCEPT ![server_name] =
                              [stats EXCEPT !.total_checks = @ + 1,
                                            !.last_check = now,
                                            !.consecutive_failures = failures]]
       /\ pending' = IF failures >= FailureThreshold
                     THEN Append(pending, [type |-> "server_down",
                                           message |-> Msg(<<server_name>>, failures),
                                           task |-> task])
                     ELSE pending
       /\ UNCHANGED <<response_times, alerts>>

\* mutant: a probe that raised is not counted in total_checks
M_handle_server_failure_uncounted(server_name, reason, task) ==
    LET stats == uptime_stats[server_name]
        failures == stats.consecutive_failures + 1
    IN /\ server_status' = [server_status EXCEPT ![server_name] = FALSE]
       /\ uptime_stats' = [uptime_stats EXCEPT ![server_name] =
                              [stats EXCEPT !.last_check = now,
                                            !.consecutive_failures = failures]]
       /\ pending' = IF failures >= FailureThreshold
                     THEN Append(pending, [type |-> "server_down",
                                           message |-> Msg(<<server_name>>, failures),
                                           task |-> task])
                     ELSE pending
       /\ UNCHANGED <<response_times, alerts>>

\* task: the loop task whose probe runs this (create_task queues the alert
\* task behind everything that probe's cycle has queued so far).
_handle_server_failure(server_name, reason, task) ==
    LET stats == uptime_stats[server_name]
        failures == stats.consecutive_failures + 1
    IN /\ server_status' = [server_status EXCEPT ![server_name] = FALSE]
       /\ uptime_stats' = [uptime_stats EXCEPT ![server_name] =
                              [stats EXCEPT !.total_checks = @ + 1,
                                            !.last_check = now,
                                            !.consecutive_failures = failures]]
       /\ pending' = IF failures >= FailureThreshold
                     THEN Append(pending, [type |-> "server_down",
                                           message |-> Msg(<<server_name>>, failures),
                                           task |-> task])
                     ELSE pending
       /\ UNCHANGED <<response_times, alerts>>

\* ---------------------------------------- ServerMonitor._check_server_health
\* mutant: a success leaves consecutive_failures as it was
M_StatsAfterResponse_no_reset(stats, is_healthy, t) ==
    IF is_healthy
    THEN [stats EXCEPT !.total_checks = @ + 1,
                       !.last_check = t,
                       !.successful_checks = @ + 1,
                       !.last_success = t]
    ELSE [stats EXCEPT !.total_checks = @ + 1,
                       !.last_check = t,
                       !.consecutive_failures = @ + 1]

\* mutant: a non-200 response is not counted as a failure of the run
M_StatsAfterResponse_unhealthy_uncounted(stats, is_healthy, t) ==
    IF is_healthy
    THEN [stats EXCEPT !.total_checks = @ + 1,
                       !.last_check = t,
                       !.successful_checks = @ + 1,
                       !.last_success = t,
                       !.consecutive_failures = 0]
    ELSE [stats EXCEPT !.total_checks = @ + 1,
                       !.last_check = t]

\* mutant: total_checks is counted on the unhealthy branch only
M_StatsAfterResponse_success_not_totalled(stats, is_healthy, t) ==
    IF is_healthy
    THEN [stats EXCEPT !.last_check = t,
                       !.successful_checks = @ + 1,
                       !.last_success = t,
                       !.consecutive_failures = 0]
    ELSE [stats EXCEPT !.total_checks = @ + 1,
                       !.last_check = t,
                       !.consecutive_failures = @ + 1]

\* mutant: a success does not stamp last_success
M_StatsAfterResponse_success_unstamped(stats, is_healthy, t) ==
    IF is_healthy
    THEN [stats EXCEPT !.total_checks = @ + 1,
                       !.last_check = t,
                       !.successful_checks = @ + 1,
                       !.consecutive_failures = 0]
    ELSE [stats EXCEPT !.total_checks = @ + 1,
                       !.last_check = t,
                       !.consecutive_failures = @ + 1]

\* "Update uptime stats": the stats of a server after a response, at time t.
StatsAfterResponse(stats, is_healthy, t) ==
    IF is_healthy
    THEN [stats EXCEPT !.total_checks = @ + 1,
                       !.last_check = t,
                       !.successful_checks = @ + 1,
                       !.last_success = t,
                       !.consecutive_failures = 0]
    ELSE [stats EXCEPT !.total_checks = @ + 1,
                       !.last_check = t,
                       !.consecutive_failures = @ + 1]

\* mutant: only TimeoutError and ClientConnectionError are caught, any other
\* exception ends the probe task with nothing recorded
M_check_server_health_error_uncaught(server_name, outcome, response_time, task) ==
    IF outcome.kind = "response"
    THEN LET is_healthy == outcome.status = 200
             times == Append(response_times[server_name], response_time)
         IN /\ response_times' = [response_times EXCEPT ![server_name] =
                                     IF Len(times) > ResponseTimeCapacity
                                     THEN LastN(times, ResponseTimeCapacity)
                                     ELSE times]
            /\ server_status' = [server_status EXCEPT ![server_name] = is_healthy]
            /\ uptime_stats' = [uptime_stats EXCEPT ![server_name] =
                                   StatsAfterResponse(@, is_healthy, now)]
            /\ alerts' = IF is_healthy
                         THEN alerts
                         ELSE _add_alert(alerts, "server_unhealthy",
                                         Msg(<<server_name>>, outcome.status), now)
            /\ UNCHANGED pending
    ELSE IF outcome.kind = "error"
         THEN UNCHANGED <<server_status, uptime_stats, response_times, alerts, pending>>
         ELSE _handle_server_failure(server_name, outcome.kind, task)

\* mutant: the trim keeps the first 50 samples
M_check_server_health_keeps_oldest(server_name, outcome, response_time, task) ==
    IF outcome.kind = "response"
    THEN LET is_healthy == outcome.status = 200
             times == Append(response_times[server_name], response_time)
         IN /\ response_times' = [response_times EXCEPT ![server_name] =
                                     IF Len(times) > ResponseTimeCapacity
                                     THEN SubSeq(times, 1, ResponseTimeCapacity)
                                     ELSE times]
            /\ server_status' = [server_status EXCEPT ![server_name] = is_healthy]
            /\ uptime_stats' = [uptime_stats EXCEPT ![server_name] =
                                   StatsAfterResponse(@, is_healthy, now)]
            /\ alerts' = IF is_healthy
                         THEN alerts
                         ELSE _add_alert(alerts, "server_unhealthy",
                                         Msg(<<server_name>>, outcome.status), now)
            /\ UNCHANGED pending
    ELSE _handle_server_failure(server_name, outcome.kind, task)

\* mutant: the health of the answer is written to every target's status
M_check_server_health_status_for_all(server_name, outcome, response_time, task) ==
    IF outcome.kind = "response"
    THEN LET is_healthy == outcome.status = 200
             times == Append(response_times[server_name], response_time)
         IN /\ response_times' = [response_times EXCEPT ![server_name] =
                                     IF Len(times) > ResponseTimeCapacity
                                     THEN LastN(times, ResponseTimeCapacity)
                                     ELSE times]
            /\ server_status' = [u \in DOMAIN server_status |-> is_healthy]
            /\ uptime_stats' = [uptime_stats EXCEPT ![server_name] =
                                   StatsAfterResponse(@, is_healthy, now)]
            /\ alerts' = IF is_healthy
                         THEN alerts
                         ELSE _add_alert(alerts, "server_unhealthy",
                                         Msg(<<server_name>>, outcome.status), now)
            /\ UNCHANGED pending
    ELSE _handle_server_failure(server_name, outcome.kind, task)

\* The code that runs once the request of a probe has come back, with a
\* response or with an exception.
_check_server_health(server_name, outcome, response_time, task) ==
    IF outcome.kind = "response"
    THEN LET is_healthy == outcome.status = 200
             times == Append(response_times[server_name], response_time)
         IN /\ response_times' = [response_times EXCEPT ![server_name] =
                                     IF Len(times) > ResponseTimeCapacity
                                     THEN LastN(times, ResponseTimeCapacity)
                                     ELSE times]
            /\ server_status' = [server_status EXCEPT ![server_name] = is_healthy]
            /\ uptime_stats' = [uptime_stats EXCEPT ![server_name] =
                                   StatsAfterResponse(@, is_healthy, now)]
            /\ alerts' = IF is_healthy
                         THEN alerts
                         ELSE _add_alert(alerts, "server_unhealthy",
                                         Msg(<<server_name>>, outcome.status), now)
            /\ UNCHANGED pending
    ELSE _handle_server_failure(server_name, outcome.kind, task)

\* ------------------------------------- ServerMonitor._check_critical_services
\* mutant: only the first critical service is looked at
M_DownServices_first_only(status) ==
    SelectSeq(SubSeq(critical_services, 1, 1), LAMBDA s : s \in DOMAIN status /\ ~status[s])

\* down_services of a status map
DownServices(status) ==
    SelectSeq(critical_services, LAMBDA s : s \in DOMAIN status /\ ~status[s])

\* mutant: no aggregate alert right after a per-target alert
M_check_critical_services_deduplicated ==
    LET down_services == DownServices(server_status)
    IN alerts' = IF down_services # <<>>
                    /\ ~(alerts # <<>> /\ alerts[Len(alerts)].type = "server_unhealthy")
                 THEN _add_alert(alerts, "critical_services_down",
                                 Msg(down_services, 0), now)
                 ELSE alerts

_check_critical_services ==
    LET down_services == DownServices(server_status)
    IN alerts' = IF down_services # <<>>
                 THEN _add_alert(alerts, "critical_services_down",
                                 Msg(down_services, 0), now)
                 ELSE alerts

\* ----------------------------------- ServerMonitor.is_critical_service_down
\* any(not self.server_status.get(service, False) for service in critical_services)
is_critical_service_down ==
    \E i \in 1..Len(critical_services) :
        LET service == critical_services[i]
        IN ~(IF service \in DOMAIN server_status THEN server_status[service] ELSE FALSE)

\* -------------------------------------- ServerMonitor.get_all_server_status
get_all_server_status == server_status

\* ------------------------------------------------------- query arithmetic
\* 0 and 0.0
Zero == [error |-> "none", num |-> 0, den |-> 1]

\* x * 100
Percent(x) == [x EXCEPT !.num = @ * 100]

\* the integer nearest to n / d, a tie going to the even one
RoundHalfEven(n, d) ==
    LET q == n \div d
        r == n % d
    IN IF 2 * r < d THEN q
       ELSE IF 2 * r > d THEN q + 1
       ELSE IF q % 2 = 0 THEN q ELSE q + 1

\* round(x, ndigits): a whole number of 10^-ndigits
Round(x, ndigits) ==
    [error |-> x.error,
     num |-> RoundHalfEven(x.num * 10^ndigits, x.den),
     den |-> 10^ndigits]

RECURSIVE SumSeq(_)
SumSeq(seq) == IF seq = <<>> THEN 0 ELSE Head(seq) + SumSeq(Tail(seq))

\* ------------------------------------------- ServerMonitor.get_server_uptime
\* mutant: the total_checks == 0 test is missing
M_get_server_uptime_unguarded(server_name) ==
    IF server_name \notin DOMAIN uptime_stats
    THEN Zero
    ELSE LET stats == uptime_stats[server_name]
         IN Percent(Quotient(stats.successful_checks, stats.total_checks))

get_server_uptime(server_name) ==
    IF server_name \notin DOMAIN uptime_stats
    THEN Zero
    ELSE LET stats == uptime_stats[server_name]
         IN IF stats.total_checks = 0
            THEN Zero
            ELSE Percent(Quotient(stats.successful_checks, stats.total_checks))

\* ----------------------------------------- ServerMonitor.get_detailed_status
\* mutant: the total_checks > 0 test is missing
M_get_detailed_status_unguarded ==
    [server_name \in monitored_servers |->
        LET stats == uptime_stats[server_name]
            uptime_pct == Percent(Quotient(stats.successful_checks, stats.total_checks))
            times == response_times[server_name]
            avg_response_time ==
                IF times # <<>> THEN Quotient(SumSeq(times), Len(times)) ELSE Zero
        IN [status |-> IF server_name \in DOMAIN server_status /\ server_status[server_name]
                       THEN "healthy" ELSE "unhealthy",
            uptime_percentage |-> Round(uptime_pct, 2),
            total_checks |-> stats.total_checks,
            successful_checks |-> stats.successful_checks,
            consecutive_failures |-> stats.consecutive_failures,
            last_check |-> IF stats.last_check # NoTime
                           THEN <<isoformat(stats.last_check)>> ELSE <<>>,
            last_success |-> IF stats.last_success # NoTime
                             THEN <<isoformat(stats.last_success)>> ELSE <<>>,
            average_response_time |-> Round(avg_response_time, 3),
            recent_response_times |-> LastN(times, 10)]]

\* The dict returned, without its "url" entries; a None is an empty sequence.
get_detailed_status ==
    [server_name \in monitored_servers |->
        LET stats == uptime_stats[server_name]
            uptime_pct ==
                IF stats.total_checks > 0
                THEN Percent(Quotient(stats.successful_checks, stats.total_checks))
                ELSE Zero
            times == response_times[server_name]
            avg_response_time ==
                IF times # <<>> THEN Quotient(SumSeq(times), Len(times)) ELSE Zero
        IN [status |-> IF server_name \in DOMAIN server_status /\ server_status[server_name]
                       THEN "healthy" ELSE "unhealthy",
            uptime_percentage |-> Round(uptime_pct, 2),
            total_checks |-> stats.total_checks,
            successful_checks |-> stats.successful_checks,
            consecutive_failures |-> stats.consecutive_failures,
            last_check |-> IF stats.last_check # NoTime
                           THEN <<isoformat(stats.last_check)>> ELSE <<>>,
            last_success |-> IF stats.last_success # NoTime
                             THEN <<isoformat(stats.last_success)>> ELSE <<>>,
            average_response_time |-> Round(avg_response_time, 3),
            recent_response_times |-> LastN(times, 10)]]

\* ------------------------------------------------ ServerMonitor.get_metrics
get_metrics ==
    LET total_servers == Cardinality(monitored_servers)
        healthy_servers == Cardinality({s \in DOMAIN server_status : server_status[s]})
        system_health ==
            IF total_servers > 0
            THEN Percent(Quotient(healthy_servers, total_servers))
            ELSE Zero
        critical_healthy ==
            Len(SelectSeq(critical_services,
                          LAMBDA s : s \in DOMAIN server_status /\ server_status[s]))
        critical_health == Percent(Quotient(critical_healthy, Len(critical_services)))
    IN [total_servers |-> total_servers,
        healthy_servers |-> healthy_servers,
        system_health_percentage |-> Round(system_health, 2),
        critical_services_health |-> Round(critical_health, 2),
        server_status |-> server_status,
        recent_alerts |->
            Len(SelectSeq(alerts,
                          LAMBDA alert : fromisoformat(alert.timestamp) > now - 1))]

\* ------------------------------------------ ServerMonitor.check_all_servers
\* First half: one task per monitored server, then await asyncio.gather.
FanOut(l) ==
    /\ Ops < MaxOps
    /\ loop_pc' = [loop_pc EXCEPT ![l] = "probing"]
    /\ probe' = [probe EXCEPT ![l] = [s \in monitored_servers |-> "inflight"]]

\* A probe task of loop task l resumes with the outcome of its request.
ProbeComplete(l, s) ==
    /\ loop_pc[l] = "probing"
    /\ probe[l][s] = "inflight"
    /\ \E outcome \in endpoint[s], response_time \in Latencies :
          /\ _check_server_health(s, outcome, response_time, l)
          /\ g_probes' = [g_probes EXCEPT ![s] = @ + 1]
          /\ g_ok' = [g_ok EXCEPT ![s] =
                         IF outcome.kind = "response" /\ outcome.status = 200
                         THEN @ + 1 ELSE @]
          /\ g_fail_run' = [g_fail_run EXCEPT ![s] =
                               IF outcome.kind = "response" /\ outcome.status = 200
                               THEN 0 ELSE @ + 1]
    /\ probe' = [probe EXCEPT ![l][s] = "done"]
    /\ UNCHANGED <<walletVars, configVars, verifierVars, pv_loop_pc, is_running, paymentVars, started, loop_pc, cycles,
                   restart_pc, old_loops, now, drv_n, pv_drv_n, reply>>

\* mutant: the alert task reads the failure count when it runs
M_RunAlertTask_counts_late ==
    /\ pending # <<>>
    /\ alerts' = _add_alert(alerts, Head(pending).type,
                            Msg(Head(pending).message.names,
                                uptime_stats[Head(pending).message.names[1]]
                                    .consecutive_failures),
                            now)
    /\ pending' = Tail(pending)
    /\ UNCHANGED <<walletVars, configVars, verifierVars, pv_loop_pc, is_running, server_status, uptime_stats, response_times,
                   paymentVars, started, loop_pc, probe, cycles, restart_pc, old_loops,
                   now, ghostVars>>

\* mutant: the alert task writes over the newest alert of the list
M_RunAlertTask_stale_list ==
    /\ pending # <<>>
    /\ alerts' = _add_alert(SubSeq(alerts, 1, Len(alerts) - 1), Head(pending).type,
                            Head(pending).message, now)
    /\ pending' = Tail(pending)
    /\ UNCHANGED <<walletVars, configVars, verifierVars, pv_loop_pc, is_running, server_status, uptime_stats, response_times,
                   paymentVars, started, loop_pc, probe, cycles, restart_pc, old_loops,
                   now, ghostVars>>

\* The event loop runs the oldest _add_alert task made by create_task.
RunAlertTask ==
    /\ pending # <<>>
    /\ alerts' = _add_alert(alerts, Head(pending).type, Head(pending).message, now)
    /\ pending' = Tail(pending)
    /\ UNCHANGED <<walletVars, configVars, verifierVars, pv_loop_pc, is_running, server_status, uptime_stats, response_times,
                   paymentVars, started, loop_pc, probe, cycles, restart_pc, old_loops,
                   now, ghostVars>>

\* mutant: the critical check does not wait for the probes
M_CycleJoin_no_gather(l) ==
    /\ loop_pc[l] = "probing"
    /\ \A i \in 1..Len(pending) : pending[i].task # l
    /\ _check_critical_services
    /\ loop_pc' = [loop_pc EXCEPT ![l] = "sleeping"]
    /\ cycles' = [cycles EXCEPT ![l] = @ + 1]
    /\ UNCHANGED <<walletVars, configVars, verifierVars, pv_loop_pc, is_running, server_status, uptime_stats, response_times,
                   paymentVars, started, probe, pending, restart_pc, old_loops, now,
                   ghostVars>>

\* Second half: gather has returned (every probe task of the cycle is done and
\* the tasks they created have had their turn), the critical check runs, and
\* start_monitoring goes to sleep for the check interval.
CycleJoin(l) ==
    /\ loop_pc[l] = "probing"
    /\ \A s \in monitored_servers : probe[l][s] = "done"
    /\ \A i \in 1..Len(pending) : pending[i].task # l
    /\ _check_critical_services
    /\ loop_pc' = [loop_pc EXCEPT ![l] = "sleeping"]
    /\ cycles' = [cycles EXCEPT ![l] = @ + 1]
    /\ UNCHANGED <<walletVars, configVars, verifierVars, pv_loop_pc, is_running, server_status, uptime_stats, response_times,
                   paymentVars, started, probe, pending, restart_pc, old_loops, now,
                   ghostVars>>

\* ------------------------------------------- ServerMonitor.start_monitoring
\* mutant: the new loop never sets is_running
M_LoopStart_stays_stopped(l) ==
    /\ loop_pc[l] = "scheduled"
    /\ FanOut(l)
    /\ UNCHANGED <<walletVars, configVars, verifierVars, pv_loop_pc, is_running, server_status,
                   uptime_stats, response_times, alerts, paymentVars, started, cycles,
                   pending, restart_pc, old_loops, now, ghostVars>>

\* The task starts running: is_running = True, and the first pass of the loop.
LoopStart(l) ==
    /\ loop_pc[l] = "scheduled"
    /\ is_running' = TRUE
    /\ FanOut(l)
    /\ UNCHANGED <<walletVars, configVars, verifierVars, pv_loop_pc, server_status, uptime_stats, response_times, alerts,
                   paymentVars, started, cycles, pending, restart_pc, old_loops, now,
                   ghostVars>>

\* mutant: the loop task ends when the sleep of the except branch is over
M_LoopWake_error_ends_loop(l) ==
    /\ loop_pc[l] \in {"sleeping", "backoff"}
    /\ IF is_running /\ loop_pc[l] = "sleeping"
       THEN FanOut(l)
       ELSE /\ loop_pc' = [loop_pc EXCEPT ![l] = "exited"]
            /\ UNCHANGED probe
    /\ UNCHANGED <<walletVars, configVars, verifierVars, pv_loop_pc, monitorVars, paymentVars, started, cycles, pending,
                   restart_pc, old_loops, now, ghostVars>>

\* asyncio.sleep (of the interval, or of the except branch) is over: the
\* while condition is tested again.
LoopWake(l) ==
    /\ loop_pc[l] \in {"sleeping", "backoff"}
    /\ IF is_running
       THEN FanOut(l)
       ELSE /\ loop_pc' = [loop_pc EXCEPT ![l] = "exited"]
            /\ UNCHANGED probe
    /\ UNCHANGED <<walletVars, configVars, verifierVars, pv_loop_pc, monitorVars, paymentVars, started, cycles, pending,
                   restart_pc, old_loops, now, ghostVars>>

\* asyncio.create_task(self.start_monitoring()) of the payment verifier.
PvCreateLoopTask ==
    \E l \in PvLoops :
        /\ pv_loop_pc[l] = "absent"
        /\ \A k \in PvLoops : k < l => pv_loop_pc[k] # "absent"
        /\ pv_loop_pc' = [pv_loop_pc EXCEPT ![l] = "scheduled"]

\* ----------------------------------------------------- main.startup_event
Startup ==
    /\ ~started
    /\ started' = TRUE
    /\ PvCreateLoopTask
    /\ CreateLoopTask
    /\ UNCHANGED <<walletVars, configVars, verifierVars, monitorVars, paymentVars, probe, cycles, pending,
                   restart_pc, old_loops, now, ghostVars>>

\* ---------------------------------------------------- ServerMonitor.restart
\* Up to the await: is_running = False, then asyncio.sleep(1).  The request
\* handler runs after the tasks that create_task queued before it.
RestartCall(c) ==
    /\ started
    /\ \A l \in Loops : loop_pc[l] # "scheduled"
    /\ Ops < MaxOps
    /\ restart_pc[c] = "idle"
    /\ \A b \in Calls : b < c => restart_pc[b] # "idle"
    /\ is_running' = FALSE
    /\ restart_pc' = [restart_pc EXCEPT ![c] = "sleeping"]
    /\ old_loops' = [old_loops EXCEPT ![c] = {l \in Loops : Alive(l)}]
    /\ UNCHANGED <<walletVars, configVars, verifierVars, pv_loop_pc, server_status, uptime_stats, response_times, alerts,
                   paymentVars, started, loop_pc, probe, cycles, pending, now,
                   ghostVars>>

\* mutant: restart() starts the counters afresh
M_RestartResume_fresh_stats(c) ==
    /\ restart_pc[c] = "sleeping"
    /\ CreateLoopTask
    /\ restart_pc' = [restart_pc EXCEPT ![c] = "returned"]
    /\ uptime_stats' = [s \in monitored_servers |->
                           [uptime_stats[s] EXCEPT !.total_checks = 0,
                                                   !.successful_checks = 0]]
    /\ UNCHANGED <<walletVars, configVars, verifierVars, pv_loop_pc, is_running, server_status,
                   response_times, alerts, paymentVars, started, probe, cycles,
                   pending, old_loops, now, ghostVars>>

\* After the sleep: create_task(self.start_monitoring()), and restart returns.
RestartResume(c) ==
    /\ restart_pc[c] = "sleeping"
    /\ CreateLoopTask
    /\ restart_pc' = [restart_pc EXCEPT ![c] = "returned"]
    /\ UNCHANGED <<walletVars, configVars, verifierVars, pv_loop_pc, monitorVars, paymentVars, started, probe, cycles,
                   pending, old_loops, now, ghostVars>>

Next ==
    \/ Startup
    \/ \E l \in Loops : LoopStart(l)
    \/ \E l \in Loops, s \in monitored_servers : ProbeComplete(l, s)
    \/ RunAlertTask
    \/ \E l \in Loops : CycleJoin(l)
    \/ \E l \in Loops : LoopWake(l)
    \/ \E c \in Calls : RestartCall(c)
    \/ \E c \in Calls : RestartResume(c)

Spec == Init /\ [][Next]_vars

\* ------------------------------------------------------ alert-list driver
\* A long run seen from the alert lists alone: the k-th alert a monitor
\* appends carries k in its message, with the alert types the monitor uses
\* taken in turn.
ServerAlertTypes == <<"server_unhealthy", "server_down", "critical_services_down">>
PaymentAlertTypes == <<"payment_verification_failed", "stripe_verification_failed">>

ServerAppend ==
    /\ drv_n < MaxAppends
    /\ alerts' = _add_alert(alerts, ServerAlertTypes[(drv_n % 3) + 1],
                            Msg(<<>>, drv_n + 1), now)
    /\ drv_n' = drv_n + 1
    /\ UNCHANGED <<walletVars, configVars, verifierVars, pv_loop_pc, is_running, server_status, uptime_stats, response_times,
                   paymentVars, taskVars, g_probes, g_ok, g_fail_run, pv_drv_n, reply>>

PaymentAppend ==
    /\ pv_drv_n < MaxAppends
    /\ pv_alerts' = pv_add_alert(pv_alerts, PaymentAlertTypes[(pv_drv_n % 2) + 1],
                                 Msg(<<>>, pv_drv_n + 1), now)
    /\ pv_drv_n' = pv_drv_n + 1
    /\ UNCHANGED <<walletVars, configVars, verifierVars, pv_loop_pc, monitorVars, taskVars, g_probes, g_ok, g_fail_run, drv_n,
                   reply>>

NextAlerts == ServerAppend \/ PaymentAppend

SpecAlerts == Init /\ [][NextAlerts]_vars

\* ----------------------------------------------------- alert-window run
\* Alerts appended while the clock advances, hour by hour.
InitClock == Init /\ monitored_servers = {"stripe_api"}

Tick ==
    /\ now < MaxHours
    /\ now' = now + 1
    /\ UNCHANGED <<walletVars, configVars, verifierVars, pv_loop_pc, monitorVars, paymentVars, started, loop_pc, probe,
                   cycles, pending, restart_pc, old_loops, ghostVars>>

ServerAlertNow ==
    /\ Len(alerts) + Len(pv_alerts) < MaxClockAlerts
    /\ alerts' = _add_alert(alerts, "server_down", Msg(<<"stripe_api">>, 3), now)
    /\ UNCHANGED <<walletVars, configVars, verifierVars, pv_loop_pc, is_running, server_status, uptime_stats, response_times,
                   paymentVars, taskVars, ghostVars>>

PaymentAlertNow ==
    /\ Len(alerts) + Len(pv_alerts) < MaxClockAlerts
    /\ pv_alerts' = pv_add_alert(pv_alerts, "stripe_verification_failed",
                                 Msg(<<>>, 0), now)
    /\ UNCHANGED <<walletVars, configVars, verifierVars, pv_loop_pc, monitorVars, taskVars, ghostVars>>

NextClock == Tick \/ ServerAlertNow \/ PaymentAlertNow

SpecClock == InitClock /\ [][NextClock]_vars

\* -------------------------------------------------------------- query run
\* The alert-window run with the status and metrics endpoints called in
\* between.  None of the query coroutines has a suspension point, so a call
\* is one step; its reply is delivered before anything else runs.
NoReply == [op |-> "none", value |-> <<>>]

\* PaymentVerifier.get_payment_stats
get_payment_stats == payment_stats

StatusQueries ==
    {"get_all_server_status", "get_detailed_status", "get_metrics",
     "is_automation_active", "get_payment_stats"}

\* mutant: get_alerts keeps only what it returns
M_GetAlerts_prunes ==
    /\ reply.op = "none"
    /\ reply' = [op |-> "get_alerts", value |-> get_alerts]
    /\ alerts' = get_alerts
    /\ UNCHANGED <<walletVars, configVars, is_running, server_status, uptime_stats, response_times,
                   paymentVars, taskVars, verifierVars, pv_loop_pc, g_probes, g_ok,
                   g_fail_run, drv_n, pv_drv_n>>

\* ServerMonitor.get_alerts is called.
GetAlerts ==
    /\ reply.op = "none"
    /\ reply' = [op |-> "get_alerts", value |-> get_alerts]
    /\ UNCHANGED <<walletVars, configVars, monitorVars, paymentVars, taskVars, verifierVars,
                   pv_loop_pc, g_probes, g_ok, g_fail_run, drv_n, pv_drv_n>>

\* PaymentVerifier.get_alerts is called.
PvGetAlerts ==
    /\ reply.op = "none"
    /\ reply' = [op |-> "pv_get_alerts", value |-> pv_get_alerts]
    /\ UNCHANGED <<walletVars, configVars, monitorVars, paymentVars, taskVars, verifierVars,
                   pv_loop_pc, g_probes, g_ok, g_fail_run, drv_n, pv_drv_n>>

\* One of the other queries is called.
GetStatus(op) ==
    /\ reply.op = "none"
    /\ reply' = [op |-> op,
                 value |-> CASE op = "get_all_server_status" -> get_all_server_status
                             [] op = "get_detailed_status" -> get_detailed_status
                             [] op = "get_metrics" -> get_metrics
                             [] op = "is_automation_active" -> is_automation_active
                             [] op = "get_payment_stats" -> get_payment_stats]
    /\ UNCHANGED <<walletVars, configVars, monitorVars, paymentVars, taskVars, verifierVars,
                   pv_loop_pc, g_probes, g_ok, g_fail_run, drv_n, pv_drv_n>>

\* The reply is sent.
Deliver ==
    /\ reply.op # "none"
    /\ reply' = NoReply
    /\ UNCHANGED <<walletVars, configVars, monitorVars, paymentVars, taskVars, verifierVars,
                   pv_loop_pc, g_probes, g_ok, g_fail_run, drv_n, pv_drv_n>>

NextQueries ==
    \/ reply.op = "none" /\ NextClock
    \/ GetAlerts
    \/ PvGetAlerts
    \/ \E op \in StatusQueries : GetStatus(op)
    \/ Deliver

SpecQueries == InitClock /\ [][NextQueries]_vars

\* ------------------------------------------------------- verification run
\* Executions of verify_all_payments, by the payment loop and by
\* POST /verify-payments; they can overlap at the DeFi request.
InitPayment ==
    \E config \in PaymentConfigs, key \in BOOLEAN :
        InitMonitor(config) /\ InitVerifier(key)

\* verify_all_payments up to the await inside _verify_defi_operations (the
\* request, or the closing of the client session): the Stripe and wallet
\* sub-checks make no asynchronous call.
verify_begin(e) ==
    /\ \E api \in StripeApi, file \in WalletFile :
          LET stripe == _verify_stripe_payments(api)
              wallet == _verify_wallet_transactions(file)
          IN /\ pv_alerts' = IF stripe.alert
                             THEN pv_add_alert(pv_alerts, "stripe_verification_failed",
                                               Msg(<<>>, 0), now)
                             ELSE pv_alerts
             /\ verify_locals' = [verify_locals EXCEPT ![e] =
                                     [stripe_status |-> stripe.result,
                                      wallet_status |-> wallet.result]]
             /\ g_raised' = [g_raised EXCEPT ![e] =
                                (IF stripe.raised THEN {"stripe"} ELSE {})
                                \cup (IF wallet.raised THEN {"wallet"} ELSE {})]
             /\ g_alerted' = [g_alerted EXCEPT ![e] = IF stripe.alert THEN 1 ELSE 0]
    /\ verify_pc' = [verify_pc EXCEPT ![e] = "defi_request"]

\* mutant: the tally is lost when another execution is in progress
M_verify_complete_lost_update(e) ==
    /\ \E response \in DefiResponse :
          LET defi == _verify_defi_operations(response)
              updated == _update_payment_stats(payment_stats,
                             verify_locals[e].stripe_status,
                             verify_locals[e].wallet_status,
                             defi.result, now)
          IN /\ payment_stats' =
                   IF \E d \in Verifications : d # e /\ verify_pc[d] = "defi_request"
                   THEN [updated EXCEPT !.total_processed = payment_stats.total_processed]
                   ELSE updated
             /\ g_last' = [stripe_status |-> verify_locals[e].stripe_status,
                           wallet_status |-> verify_locals[e].wallet_status,
                           defi_status |-> defi.result,
                           raised |-> g_raised[e]
                                        \cup (IF defi.raised THEN {"defi"} ELSE {}),
                           alerted |-> g_alerted[e]]
    /\ verify_locals' = [verify_locals EXCEPT ![e] = NoLocals]
    /\ g_raised' = [g_raised EXCEPT ![e] = {}]
    /\ g_alerted' = [g_alerted EXCEPT ![e] = 0]
    /\ verify_pc' = [verify_pc EXCEPT ![e] = "done"]

\* mutant: an error in a sub-check ends the execution before the tally
M_verify_complete_error_aborts(e) ==
    /\ \E response \in DefiResponse :
          LET defi == _verify_defi_operations(response)
              raised == g_raised[e] \cup (IF defi.raised THEN {"defi"} ELSE {})
          IN /\ payment_stats' = IF raised # {}
                                 THEN payment_stats
                                 ELSE _update_payment_stats(payment_stats,
                                          verify_locals[e].stripe_status,
                                          verify_locals[e].wallet_status,
                                          defi.result, now)
             /\ g_last' = [stripe_status |-> verify_locals[e].stripe_status,
                           wallet_status |-> verify_locals[e].wallet_status,
                           defi_status |-> defi.result,
                           raised |-> raised,
                           alerted |-> g_alerted[e]]
    /\ verify_locals' = [verify_locals EXCEPT ![e] = NoLocals]
    /\ g_raised' = [g_raised EXCEPT ![e] = {}]
    /\ g_alerted' = [g_alerted EXCEPT ![e] = 0]
    /\ verify_pc' = [verify_pc EXCEPT ![e] = "done"]

\* verify_all_payments from there to its end.
verify_complete(e) ==
    /\ \E response \in DefiResponse :
          LET defi == _verify_defi_operations(response)
          IN /\ payment_stats' = _update_payment_stats(payment_stats,
                                     verify_locals[e].stripe_status,
                                     verify_locals[e].wallet_status,
                                     defi.result, now)
             /\ g_last' = [stripe_status |-> verify_locals[e].stripe_status,
                           wallet_status |-> verify_locals[e].wallet_status,
                           defi_status |-> defi.result,
                           raised |-> g_raised[e]
                                        \cup (IF defi.raised THEN {"defi"} ELSE {}),
                           alerted |-> g_alerted[e]]
    /\ verify_locals' = [verify_locals EXCEPT ![e] = NoLocals]
    /\ g_raised' = [g_raised EXCEPT ![e] = {}]
    /\ g_alerted' = [g_alerted EXCEPT ![e] = 0]
    /\ verify_pc' = [verify_pc EXCEPT ![e] = "done"]

\* Executions begun and restart() calls made so far: the length of the run.
PvOps ==
    Cardinality({e \in Verifications : verify_pc[e] # "idle"})
    + Cardinality({c \in PvCalls : pv_restart_pc[c] # "idle"})

\* The next execution to start.
IsNextVerification(e) ==
    /\ PvOps < MaxVerifications
    /\ verify_pc[e] = "idle"
    /\ \A d \in Verifications : d < e => verify_pc[d] # "idle"

\* mutant: the triggered verification sets is_running
M_TriggerVerification_starts_monitor(e) ==
    /\ started
    /\ \A l \in PvLoops : pv_loop_pc[l] # "scheduled"
    /\ \A d \in Verifications :
          verify_pc[d] = "defi_request" => \E l \in PvLoops : pv_loop_exec[l] = d
    /\ IsNextVerification(e)
    /\ verify_begin(e)
    /\ pv_is_running' = TRUE
    /\ UNCHANGED <<walletVars, configVars, monitorVars, taskVars, ghostVars, payment_stats,
                   stripe_secret_key, payment_methods, pv_loop_exec, pv_restart_pc,
                   g_last, pv_loop_pc>>

\* ----------------------------------- main.trigger_payment_verification
\* POST /verify-payments: the background task starts verify_all_payments.
\* The requests come one at a time, so at most one such execution and the
\* loop's own are in progress together.
TriggerVerification(e) ==
    /\ started
    /\ \A l \in PvLoops : pv_loop_pc[l] # "scheduled"
    /\ \A d \in Verifications :
          verify_pc[d] = "defi_request" => \E l \in PvLoops : pv_loop_exec[l] = d
    /\ IsNextVerification(e)
    /\ verify_begin(e)
    /\ UNCHANGED <<walletVars, configVars, monitorVars, taskVars, ghostVars, payment_stats,
                   stripe_secret_key, pv_is_running, payment_methods, pv_loop_exec,
                   pv_restart_pc, g_last, pv_loop_pc>>

\* The background task's verify_all_payments finishes.
TriggerComplete(e) ==
    /\ verify_pc[e] = "defi_request"
    /\ \A l \in PvLoops : pv_loop_exec[l] # e
    /\ verify_complete(e)
    /\ UNCHANGED <<walletVars, configVars, monitorVars, paymentVars, taskVars, ghostVars,
                   stripe_secret_key, pv_is_running, payment_methods, pv_loop_exec,
                   pv_restart_pc, pv_loop_pc>>

\* --------------------------------------- PaymentVerifier.start_monitoring
\* The first statement of the try block: await self.verify_all_payments().
PvCycleBegin(l) ==
    \E e \in Verifications :
        /\ IsNextVerification(e)
        /\ verify_begin(e)
        /\ pv_loop_exec' = [pv_loop_exec EXCEPT ![l] = e]
        /\ pv_loop_pc' = [pv_loop_pc EXCEPT ![l] = "verifying"]

\* The task starts running: is_running = True, and the first pass of the loop.
PvLoopStart(l) ==
    /\ pv_loop_pc[l] = "scheduled"
    /\ pv_is_running' = TRUE
    /\ PvCycleBegin(l)
    /\ UNCHANGED <<walletVars, configVars, monitorVars, taskVars, ghostVars, payment_stats,
                   stripe_secret_key, payment_methods, pv_restart_pc, g_last>>

\* verify_all_payments returns to the loop, and check_payment_methods runs
\* up to its first request (the wallet_service or dex_connector endpoint).
PvVerifyDone(l) ==
    /\ pv_loop_pc[l] = "verifying"
    /\ verify_complete(pv_loop_exec[l])
    /\ pv_loop_exec' = [pv_loop_exec EXCEPT ![l] = 0]
    /\ pv_loop_pc' = [pv_loop_pc EXCEPT ![l] = "checking_methods"]
    /\ UNCHANGED <<walletVars, configVars, monitorVars, paymentVars, taskVars, ghostVars,
                   stripe_secret_key, pv_is_running, payment_methods, pv_restart_pc>>

\* What the three status checks of check_payment_methods return here: Stripe
\* answers or fails, the wallet service answers 200 or the file fallback
\* fails, the dex_connector endpoint answers 200.
StripeStatus == IF stripe_secret_key THEN {"operational", "error"} ELSE {"not_configured"}

WalletStatus == {"operational", "degraded"}

DefiStatus == IF dex_url THEN {"operational"} ELSE {"not_configured"}

\* check_payment_methods assigns self.payment_methods once all three status
\* checks have answered, and the loop goes to sleep for the interval.
PvMethodsDone(l) ==
    /\ pv_loop_pc[l] = "checking_methods"
    /\ \E stripe \in StripeStatus, wallet \in WalletStatus, defi \in DefiStatus :
          payment_methods' = [stripe |-> stripe, wallet_system |-> wallet,
                              defi_operations |-> defi]
    /\ pv_loop_pc' = [pv_loop_pc EXCEPT ![l] = "sleeping"]
    /\ UNCHANGED <<walletVars, configVars, monitorVars, paymentVars, taskVars, ghostVars,
                   payment_stats, stripe_secret_key, pv_is_running, verify_pc,
                   verify_locals, pv_loop_exec, pv_restart_pc, g_raised, g_alerted,
                   g_last>>

\* asyncio.sleep is over: the while condition is tested again.
PvLoopWake(l) ==
    /\ pv_loop_pc[l] \in {"sleeping", "backoff"}
    /\ IF pv_is_running
       THEN PvCycleBegin(l)
       ELSE /\ pv_loop_pc' = [pv_loop_pc EXCEPT ![l] = "exited"]
            /\ UNCHANGED <<pv_alerts, verify_pc, verify_locals, pv_loop_exec, g_raised,
                           g_alerted>>
    /\ UNCHANGED <<walletVars, configVars, monitorVars, taskVars, ghostVars, payment_stats,
                   stripe_secret_key, pv_is_running, payment_methods, pv_restart_pc,
                   g_last>>

\* mutant: restart() zeroes the counters
M_PvRestartCall_resets_stats(c) ==
    /\ started
    /\ \A l \in PvLoops : pv_loop_pc[l] # "scheduled"
    /\ PvOps < MaxVerifications
    /\ pv_restart_pc[c] = "idle"
    /\ \A b \in PvCalls : b < c => pv_restart_pc[b] # "idle"
    /\ pv_is_running' = FALSE
    /\ pv_restart_pc' = [pv_restart_pc EXCEPT ![c] = "sleeping"]
    /\ payment_stats' = [payment_stats EXCEPT !.automated_count = 0,
                                              !.failed_count = 0,
                                              !.total_processed = 0]
    /\ UNCHANGED <<walletVars, configVars, monitorVars, paymentVars, taskVars, ghostVars,
                   stripe_secret_key, payment_methods, verify_pc, verify_locals,
                   pv_loop_exec, g_raised, g_alerted, g_last, pv_loop_pc>>

\* ------------------------------------------------ PaymentVerifier.restart
\* restart() up to its await: is_running = False, then asyncio.sleep(1).
PvRestartCall(c) ==
    /\ started
    /\ \A l \in PvLoops : pv_loop_pc[l] # "scheduled"
    /\ PvOps < MaxVerifications
    /\ pv_restart_pc[c] = "idle"
    /\ \A b \in PvCalls : b < c => pv_restart_pc[b] # "idle"
    /\ pv_is_running' = FALSE
    /\ pv_restart_pc' = [pv_restart_pc EXCEPT ![c] = "sleeping"]
    /\ UNCHANGED <<walletVars, configVars, monitorVars, paymentVars, taskVars, ghostVars,
                   payment_stats, stripe_secret_key, payment_methods, verify_pc,
                   verify_locals, pv_loop_exec, g_raised, g_alerted, g_last, pv_loop_pc>>

\* restart() after the sleep: create_task(self.start_monitoring()), return.
PvRestartResume(c) ==
    /\ pv_restart_pc[c] = "sleeping"
    /\ PvCreateLoopTask
    /\ pv_restart_pc' = [pv_restart_pc EXCEPT ![c] = "returned"]
    /\ UNCHANGED <<walletVars, configVars, monitorVars, paymentVars, taskVars, ghostVars,
                   payment_stats, stripe_secret_key, pv_is_running, payment_methods,
                   verify_pc, verify_locals, pv_loop_exec, g_raised, g_alerted, g_last>>

NextPayment ==
    \/ Startup
    \/ \E e \in Verifications : TriggerVerification(e) \/ TriggerComplete(e)
    \/ \E l \in PvLoops :
          \/ PvLoopStart(l)
          \/ PvVerifyDone(l)
          \/ PvMethodsDone(l)
          \/ PvLoopWake(l)
    \/ \E c \in PvCalls : PvRestartCall(c) \/ PvRestartResume(c)

SpecPayment == InitPayment /\ [][NextPayment]_vars

\* ------------------------------------------------------------- faults run
\* The verification run with executions whose try block raises outside the
\* sub-checks' own handlers (an error raised inside a handler, or by
\* _update_payment_stats): the except branch of verify_all_payments.
FaultsConfig == [servers |-> {"stripe_api"}, endpoint |-> [s \in {"stripe_api"} |-> {Ok200}]]

InitFaults == InitMonitor(FaultsConfig) /\ InitVerifier(TRUE)

\* The except branch: failed_count += 1, then the alert; the execution ends.
verify_raises(e) ==
    /\ payment_stats' = [payment_stats EXCEPT !.failed_count = @ + 1]
    /\ pv_alerts' = pv_add_alert(pv_alerts, "payment_verification_failed", Msg(<<>>, 0), now)
    /\ verify_locals' = [verify_locals EXCEPT ![e] = NoLocals]
    /\ g_raised' = [g_raised EXCEPT ![e] = {}]
    /\ g_alerted' = [g_alerted EXCEPT ![e] = 0]
    /\ verify_pc' = [verify_pc EXCEPT ![e] = "done"]

\* The background task's verify_all_payments raises after the DeFi request.
TriggerRaises(e) ==
    /\ verify_pc[e] = "defi_request"
    /\ \A l \in PvLoops : pv_loop_exec[l] # e
    /\ verify_raises(e)
    /\ UNCHANGED <<walletVars, configVars, monitorVars, taskVars, ghostVars, stripe_secret_key,
                   pv_is_running, payment_methods, pv_loop_exec, pv_restart_pc,
                   pv_loop_pc, g_last>>

\* The loop's verify_all_payments raises after the DeFi request, handles the
\* error itself and returns; the loop goes on to check_payment_methods.
PvVerifyRaises(l) ==
    /\ pv_loop_pc[l] = "verifying"
    /\ verify_raises(pv_loop_exec[l])
    /\ pv_loop_exec' = [pv_loop_exec EXCEPT ![l] = 0]
    /\ pv_loop_pc' = [pv_loop_pc EXCEPT ![l] = "checking_methods"]
    /\ UNCHANGED <<walletVars, configVars, monitorVars, taskVars, ghostVars, stripe_secret_key,
                   pv_is_running, payment_methods, pv_restart_pc, g_last>>

NextFaults ==
    \/ NextPayment
    \/ \E e \in Verifications : TriggerRaises(e)
    \/ \E l \in PvLoops : PvVerifyRaises(l)

SpecFaults == InitFaults /\ [][NextFaults]_vars

\* ---------------------------------------------------------- sub-check run
\* verify_all_payments with the Stripe and wallet verdicts given: the DeFi
\* sub-check on any answer of the endpoint, then the statistics update.
\* The answer, the three verdicts and the counter that grew are kept as the
\* reply of the execution.
DefiSubCheck ==
    /\ payment_stats.total_processed < MaxVerifications
    /\ \E response \in DefiResponse, stripe_status \in BOOLEAN, wallet_status \in BOOLEAN :
          LET defi == _verify_defi_operations(response)
              stats == _update_payment_stats(payment_stats, stripe_status, wallet_status,
                                             defi.result, now)
          IN /\ payment_stats' = stats
             /\ reply' = [op |-> "verify_all_payments",
                          value |-> [response |-> response,
                                     stripe_status |-> stripe_status,
                                     wallet_status |-> wallet_status,
                                     defi_status |-> defi.result,
                                     verdict |-> IF stats.automated_count
                                                       > payment_stats.automated_count
                                                 THEN "automated" ELSE "failed"]]
    /\ UNCHANGED <<walletVars, configVars, monitorVars, paymentVars, taskVars, stripe_secret_key,
                   pv_is_running, payment_methods, verify_pc, verify_locals, pv_loop_exec,
                   pv_restart_pc, g_raised, g_alerted, g_last, pv_loop_pc, g_probes, g_ok,
                   g_fail_run, drv_n, pv_drv_n>>

NextDefi == DefiSubCheck

SpecDefi == InitPayment /\ [][NextDefi]_vars

\* ------------------------------------------------------------- loops run
\* Both polling loops, with cycles that can raise an exception into the
\* try block of start_monitoring.  One critical target that always answers
\* 500 (a cycle that completes appends critical_services_down), and no
\* restart() call, so that is_running stays true once a loop has set it.
LoopConfig == [servers |-> {"stripe_api"}, endpoint |-> [s \in {"stripe_api"} |-> {Http500}]]

InitLoops == InitMonitor(LoopConfig) /\ InitVerifier(FALSE)

\* check_all_servers raises after gather has returned: the except branch of
\* start_monitoring logs the error and sleeps 5 seconds.
CycleRaises(l) ==
    /\ loop_pc[l] = "probing"
    /\ \A s \in monitored_servers : probe[l][s] = "done"
    /\ \A i \in 1..Len(pending) : pending[i].task # l
    /\ loop_pc' = [loop_pc EXCEPT ![l] = "backoff"]
    /\ cycles' = [cycles EXCEPT ![l] = @ + 1]
    /\ UNCHANGED <<walletVars, configVars, verifierVars, pv_loop_pc, monitorVars, paymentVars, started,
                   probe, pending, restart_pc, old_loops, now, ghostVars>>

\* check_payment_methods raises: the except branch of start_monitoring logs
\* the error and sleeps 10 seconds.
PvCycleRaises(l) ==
    /\ pv_loop_pc[l] = "checking_methods"
    /\ pv_loop_pc' = [pv_loop_pc EXCEPT ![l] = "backoff"]
    /\ UNCHANGED <<walletVars, configVars, monitorVars, paymentVars, taskVars, ghostVars, verifierVars>>

NextLoops ==
    \/ Startup
    \/ \E l \in Loops :
          \/ LoopStart(l)
          \/ LoopWake(l)
          \/ CycleJoin(l)
          \/ CycleRaises(l)
          \/ \E s \in monitored_servers : ProbeComplete(l, s)
    \/ \E l \in PvLoops :
          \/ PvLoopStart(l)
          \/ PvVerifyDone(l)
          \/ PvMethodsDone(l)
          \/ PvCycleRaises(l)
          \/ PvLoopWake(l)

\* The event loop resumes a task whose sleep is over.
FairLoops ==
    /\ InitLoops
    /\ [][NextLoops]_vars
    /\ \A l \in Loops : WF_vars(LoopWake(l))
    /\ \A l \in PvLoops : WF_vars(PvLoopWake(l))

\* -------------------------------------------------------------- down run
\* One target whose probes all time out, polled by the loop of startup and
\* by the loops that restart() adds: the failures pass the threshold and the
\* server_down alert tasks run while other loops' probes of the same target
\* complete.  The run is longer than the main run (MaxDownOps cycles begun
\* plus restart() calls), which one target and one outcome allow; the event
\* loop runs every alert task it has ready.
DownConfig == [servers |-> {"stripe_api"}, endpoint |-> [s \in {"stripe_api"} |-> {Timeout}]]

InitDown == InitMonitor(DownConfig) /\ InitVerifier(FALSE)

DownBudget == Ops < MaxDownOps

DownFanOut(l) ==
    /\ DownBudget
    /\ loop_pc' = [loop_pc EXCEPT ![l] = "probing"]
    /\ probe' = [probe EXCEPT ![l] = [s \in monitored_servers |-> "inflight"]]

\* start_monitoring: is_running = True and the first pass of the loop.
DownLoopStart(l) ==
    /\ loop_pc[l] = "scheduled"
    /\ is_running' = TRUE
    /\ DownFanOut(l)
    /\ UNCHANGED <<walletVars, configVars, verifierVars, pv_loop_pc, server_status, uptime_stats,
                   response_times, alerts, paymentVars, started, cycles, pending,
                   restart_pc, old_loops, now, ghostVars>>

\* asyncio.sleep is over: the while condition is tested again.
DownLoopWake(l) ==
    /\ loop_pc[l] \in {"sleeping", "backoff"}
    /\ IF is_running
       THEN DownFanOut(l)
       ELSE /\ loop_pc' = [loop_pc EXCEPT ![l] = "exited"]
            /\ UNCHANGED probe
    /\ UNCHANGED <<walletVars, configVars, verifierVars, pv_loop_pc, monitorVars, paymentVars, started,
                   cycles, pending, restart_pc, old_loops, now, ghostVars>>

\* restart() up to its await: is_running = False, then asyncio.sleep(1).
DownRestartCall(c) ==
    /\ started
    /\ \A l \in Loops : loop_pc[l] # "scheduled"
    /\ DownBudget
    /\ restart_pc[c] = "idle"
    /\ \A b \in Calls : b < c => restart_pc[b] # "idle"
    /\ is_running' = FALSE
    /\ restart_pc' = [restart_pc EXCEPT ![c] = "sleeping"]
    /\ old_loops' = [old_loops EXCEPT ![c] = {l \in Loops : Alive(l)}]
    /\ UNCHANGED <<walletVars, configVars, verifierVars, pv_loop_pc, server_status, uptime_stats,
                   response_times, alerts, paymentVars, started, loop_pc, probe, cycles,
                   pending, now, ghostVars>>

NextDown ==
    \/ Startup
    \/ \E l \in Loops :
          \/ DownLoopStart(l)
          \/ DownLoopWake(l)
          \/ CycleJoin(l)
          \/ \E s \in monitored_servers : ProbeComplete(l, s)
    \/ RunAlertTask
    \/ \E c \in Calls : DownRestartCall(c) \/ RestartResume(c)

FairDown == InitDown /\ [][NextDown]_vars /\ WF_vars(RunAlertTask)

\* ----------------------------------------------------------- restart run
\* POST /restart-monitoring while both loops run: main.restart_monitoring
\* awaits payment_verifier.restart() and then server_monitor.restart().  A
\* critical target that always answers 500 beside a standard one that always
\* answers 200, and a configured Stripe key, so that both monitors gather
\* statistics and alerts (a 500 answer is alerted
\* inline, so no alert task is ever pending); the run is bounded by the
\* cycles, executions and restart() calls of both monitors together.
RestartConfig ==
    [servers |-> {"stripe_api", "wallet_service"},
     endpoint |-> [server \in {"stripe_api", "wallet_service"} |->
                      IF server = "stripe_api" THEN {Http500} ELSE {Ok200}]]

InitRestart == InitMonitor(RestartConfig) /\ InitVerifier(TRUE)

RestartBudget == Ops + PvOps < MaxOps

\* The handler up to the sleep of payment_verifier.restart().
RestartMonitoringCall(c) ==
    /\ RestartBudget
    /\ restart_pc[c] = "idle"
    /\ PvRestartCall(c)

\* payment_verifier.restart() creates its loop task and returns; the handler
\* goes on into server_monitor.restart(), up to its sleep.
RestartMonitoringMid(c) ==
    /\ pv_restart_pc[c] = "sleeping"
    /\ restart_pc[c] = "idle"
    /\ \A l \in Loops : loop_pc[l] # "scheduled"
    /\ RestartBudget
    /\ PvCreateLoopTask
    /\ pv_restart_pc' = [pv_restart_pc EXCEPT ![c] = "returned"]
    /\ is_running' = FALSE
    /\ restart_pc' = [restart_pc EXCEPT ![c] = "sleeping"]
    /\ old_loops' = [old_loops EXCEPT ![c] = {l \in Loops : Alive(l)}]
    /\ UNCHANGED <<walletVars, configVars, server_status, uptime_stats, response_times, alerts,
                   paymentVars, started, loop_pc, probe, cycles, pending, now,
                   ghostVars, payment_stats, stripe_secret_key, pv_is_running,
                   payment_methods, verify_pc, verify_locals, pv_loop_exec, g_raised,
                   g_alerted, g_last>>

NextRestart ==
    \/ Startup
    \/ \E l \in Loops :
          \/ RestartBudget /\ LoopStart(l)
          \/ RestartBudget /\ LoopWake(l)
          \/ CycleJoin(l)
          \/ \E s \in monitored_servers : ProbeComplete(l, s)
    \/ \E l \in PvLoops :
          \/ RestartBudget /\ PvLoopStart(l)
          \/ RestartBudget /\ PvLoopWake(l)
          \/ PvVerifyDone(l)
          \/ PvMethodsDone(l)
    \/ \E c \in Calls \cap PvCalls :
          \/ RestartMonitoringCall(c)
          \/ RestartMonitoringMid(c)
          \/ RestartResume(c)

SpecRestart == InitRestart /\ [][NextRestart]_vars

\* ---------------------------------------------------- repeated restart run
\* restart() called on either monitor any number of times, a call possibly
\* made during the pause of an earlier one (two requests close together),
\* while the loops poll one healthy target (so that no alert is raised).
\* The run is bounded by the cycles, executions and restart() calls of both
\* monitors together.
InitBoth == InitMonitor(FaultsConfig) /\ InitVerifier(FALSE)

NextBoth ==
    \/ Startup
    \/ \E l \in Loops :
          \/ RestartBudget /\ LoopStart(l)
          \/ RestartBudget /\ LoopWake(l)
          \/ CycleJoin(l)
          \/ \E s \in monitored_servers : ProbeComplete(l, s)
    \/ \E c \in Calls : (RestartBudget /\ RestartCall(c)) \/ RestartResume(c)
    \/ \E l \in PvLoops :
          \/ RestartBudget /\ PvLoopStart(l)
          \/ RestartBudget /\ PvLoopWake(l)
          \/ PvVerifyDone(l)
          \/ PvMethodsDone(l)
    \/ \E c \in PvCalls : (RestartBudget /\ PvRestartCall(c)) \/ PvRestartResume(c)

\* Whatever is ready to run is run, and restart() is resumed after its
\* one-second sleep; a new request may never come, and a loop's sleep may
\* outlast the run.
Ready ==
    \/ Startup
    \/ \E l \in Loops :
          \/ RestartBudget /\ LoopStart(l)
          \/ CycleJoin(l)
          \/ \E s \in monitored_servers : ProbeComplete(l, s)
    \/ \E c \in Calls : RestartResume(c)
    \/ \E l \in PvLoops :
          \/ RestartBudget /\ PvLoopStart(l)
          \/ PvVerifyDone(l)
          \/ PvMethodsDone(l)
    \/ \E c \in PvCalls : PvRestartResume(c)

FairBoth == InitBoth /\ [][NextBoth]_vars /\ WF_vars(Ready)

\* ------------------------------------------------------------ WalletManager
\* Balances and amounts are Python floats.  The model's floats are binary
\* floating-point numbers with FloatBits significand bits, in units of the
\* smallest amount: every integer below 2^FloatBits is a float, above that
\* every second one, then every fourth, and so on; an operation returns the
\* float nearest to the exact result, the one with an even significand on a
\* tie (IEEE 754 round-half-even).
Pow2(n) == 2 ^ n

RECURSIVE Ulp(_, _)
Ulp(n, step) == IF n < step * Pow2(FloatBits) THEN step ELSE Ulp(n, 2 * step)

RoundNat(n) ==
    LET step == Ulp(n, 1)
        q == n \div step
        r == n % step
    IN IF 2 * r < step THEN q * step
       ELSE IF 2 * r > step THEN (q + 1) * step
       ELSE IF q % 2 = 0 THEN q * step ELSE (q + 1) * step

RoundFloat(x) == IF x >= 0 THEN RoundNat(x) ELSE 0 - RoundNat(0 - x)

\* x + y on floats
FAdd(x, y) == RoundFloat(x + y)

Abs(x) == IF x >= 0 THEN x ELSE 0 - x

Users == {"alice", "bob"}

\* the largest odd float, and what create_wallet and transfer are called with
TopOdd == Pow2(FloatBits) - 1

InitialBalances == {0, 2, TopOdd}

Amounts == {0 - 1, 0, 1, 2, 3}

\* WalletManager.get_total_balance: sum() over the wallets (at most two here,
\* so the order of the additions makes no difference)
RECURSIVE SumBalances(_, _)
SumBalances(w, S) ==
    IF S = {} THEN 0
    ELSE LET u == CHOOSE u \in S : TRUE
         IN FAdd(SumBalances(w, S \ {u}), w[u].balance)

get_total_balance(w) == SumBalances(w, DOMAIN w)

\* WalletManager._update_metrics
_update_metrics(w, m) ==
    [m EXCEPT !.total_wallets = Cardinality(DOMAIN w),
              !.total_balance = get_total_balance(w),
              !.last_update = now]

\* WalletManager.create_wallet: the manager's new wallets and metrics
create_wallet(w, m, user_id, initial_balance) ==
    IF user_id \in DOMAIN w
    THEN [wallets |-> w, metrics |-> m]
    ELSE LET wallet == [balance |-> initial_balance, last_updated |-> now,
                        transaction_count |-> 0, total_received |-> 0,
                        total_sent |-> 0]
             added == [u \in DOMAIN w \cup {user_id} |->
                          IF u = user_id THEN wallet ELSE w[u]]
         IN [wallets |-> added,
             metrics |-> [_update_metrics(added, m) EXCEPT !.operations_count = @ + 1]]

\* WalletManager.update_balance: what it returns, and the manager's new
\* wallets and metrics
update_balance(w, m, user_id, amount) ==
    IF user_id \notin DOMAIN w
    THEN [result |-> FALSE, wallets |-> w, metrics |-> m]
    ELSE LET wallet == [w[user_id] EXCEPT
                           !.balance = FAdd(@, amount),
                           !.last_updated = now,
                           !.transaction_count = @ + 1,
                           !.total_received = IF amount > 0 THEN FAdd(@, amount) ELSE @,
                           !.total_sent = IF amount > 0 THEN @ ELSE FAdd(@, Abs(amount))]
             updated == [w EXCEPT ![user_id] = wallet]
         IN [result |-> TRUE, wallets |-> updated,
             metrics |-> [_update_metrics(updated, m) EXCEPT !.operations_count = @ + 1]]

\* WalletManager.transfer
transfer(w, m, from_user, to_user, amount) ==
    IF amount <= 0 THEN [result |-> FALSE, wallets |-> w, metrics |-> m]
    ELSE IF from_user \notin DOMAIN w THEN [result |-> FALSE, wallets |-> w, metrics |-> m]
    ELSE IF to_user \notin DOMAIN w THEN [result |-> FALSE, wallets |-> w, metrics |-> m]
    ELSE IF w[from_user].balance < amount
         THEN [result |-> FALSE, wallets |-> w, metrics |-> m]
    ELSE LET out == update_balance(w, m, from_user, 0 - amount)
             in == update_balance(out.wallets, out.metrics, to_user, amount)
         IN [result |-> TRUE, wallets |-> in.wallets, metrics |-> in.metrics]

\* ---------------------------------------------------------------- wallet run
\* Wallets are created and funds transferred, between existing and missing
\* wallets, a wallet and itself included, with amounts of either sign.
CreateWallet ==
    /\ metrics.operations_count < MaxWalletOps
    /\ \E user_id \in Users, initial_balance \in InitialBalances :
          LET done == create_wallet(wallets, metrics, user_id, initial_balance)
          IN /\ wallets' = done.wallets
             /\ metrics' = done.metrics
             /\ reply' = [op |-> "create_wallet", value |-> <<user_id, initial_balance>>]
    /\ UNCHANGED <<configVars, monitorVars, paymentVars, taskVars, verifierVars,
                   pv_loop_pc, g_probes, g_ok, g_fail_run, drv_n, pv_drv_n>>

Transfer ==
    /\ metrics.operations_count < MaxWalletOps
    /\ \E from_user \in Users, to_user \in Users, amount \in Amounts :
          LET done == transfer(wallets, metrics, from_user, to_user, amount)
          IN /\ wallets' = done.wallets
             /\ metrics' = done.metrics
             /\ reply' = [op |-> "transfer",
                          value |-> [from_user |-> from_user, to_user |-> to_user,
                                     amount |-> amount, result |-> done.result]]
    /\ UNCHANGED <<configVars, monitorVars, paymentVars, taskVars, verifierVars,
                   pv_loop_pc, g_probes, g_ok, g_fail_run, drv_n, pv_drv_n>>

NextWallet == CreateWallet \/ Transfer

InitWallet == InitMonitor(FaultsConfig) /\ InitVerifier(FALSE)

SpecWallet == InitWallet /\ [][NextWallet]_vars

\* ------------------------------------------------------- latency-ring run
\* A long run seen from one target's response_times: probe after probe of
\* a single target that always answers, with 200 or with 500; the k-th probe
\* measures a response time of k.
LatencyConfig ==
    [servers |-> {"stripe_api"},
     endpoint |-> [server \in {"stripe_api"} |-> {Ok200, Http500}]]

InitLatency == InitMonitor(LatencyConfig) /\ InitVerifier(FALSE)

LatencyProbe ==
    \E s \in monitored_servers :
        /\ g_probes[s] < MaxPushes
        /\ \E outcome \in endpoint[s] :
              /\ _check_server_health(s, outcome, g_probes[s] + 1, 1)
              /\ g_ok' = [g_ok EXCEPT ![s] = IF outcome.status = 200 THEN @ + 1 ELSE @]
              /\ g_fail_run' = [g_fail_run EXCEPT ![s] =
                                   IF outcome.status = 200 THEN 0 ELSE @ + 1]
        /\ g_probes' = [g_probes EXCEPT ![s] = @ + 1]
        /\ UNCHANGED <<walletVars, configVars, verifierVars, pv_loop_pc, is_running, paymentVars,
                       started, loop_pc, probe, cycles, restart_pc, old_loops, now,
                       drv_n, pv_drv_n, reply>>

NextLatency == LatencyProbe

SpecLatency == InitLatency /\ [][NextLatency]_vars

\* --------------------------------------------------------- statistics run
\* _update_payment_stats called again and again with any verdicts.
StatsUpdate ==
    /\ payment_stats.total_processed < MaxStatUpdates
    /\ \E stripe_ok \in BOOLEAN, wallet_ok \in BOOLEAN, defi_ok \in BOOLEAN :
          payment_stats' = _update_payment_stats(payment_stats, stripe_ok, wallet_ok,
                                                 defi_ok, now)
    /\ UNCHANGED <<walletVars, configVars, monitorVars, paymentVars, taskVars, ghostVars,
                   stripe_secret_key, pv_is_running, payment_methods, verify_pc,
                   verify_locals, pv_loop_exec, pv_restart_pc, g_raised, g_alerted,
                   g_last, pv_loop_pc>>

NextStats == StatsUpdate

SpecStats == InitPayment /\ [][NextStats]_vars

\* ==================================================================== claims
Range(seq) == {seq[i] : i \in 1..Len(seq)}

\* The step creates the task that will append a server_down alert for s.
DownScheduled(s) ==
    /\ Len(pending') = Len(pending) + 1
    /\ pending'[Len(pending')].type = "server_down"
    /\ pending'[Len(pending')].message.names = <<s>>

ReachesThreshold(s) ==
    /\ uptime_stats[s].consecutive_failures = 2
    /\ uptime_stats'[s].consecutive_failures = 3

\* C1: once a restart() call has returned, no loop task that was alive when
\* the call was made begins another poll cycle.
C1_RestartStopsOldLoop ==
    [][\A c \in Calls : restart_pc[c] = "returned" =>
          \A l \in old_loops[c] : ~(loop_pc[l] # "probing" /\ loop_pc'[l] = "probing")]_vars

\* C2: when start_monitoring() starts running while another loop task of the
\* monitor is polling, it starts no second polling loop.
C2_StartIdempotent ==
    [][\A l \in Loops : (loop_pc[l] = "scheduled" /\ Polling(l)') =>
          ~\E k \in Loops \ {l} : Polling(k)]_vars

\* C3: a server_down alert for a target is emitted only by the probe that
\* takes the target's consecutive_failures from 2 to 3 (none at 4, 5, 6...).
C3_ServerDownOncePerRun ==
    [][\A s \in monitored_servers : DownScheduled(s) => ReachesThreshold(s)]_vars

\* C4: every probe that takes a target's consecutive_failures from 2 to 3
\* emits a server_down alert for the target, whatever kind of failure it was.
C4_ServerDownAtThreshold ==
    [][\A s \in monitored_servers : ReachesThreshold(s) => DownScheduled(s)]_vars

\* C5: with svc_a always answering 200 and svc_b always timing out, after
\* exactly 3 completed cycles of a single loop the status map is
\* {svc_a: true, svc_b: false}, svc_b has 3 consecutive failures and the alert
\* list holds exactly one server_down alert, which names svc_b.
ScenarioAfterThreeCycles ==
    /\ monitored_servers = {"svc_a", "svc_b"}
    /\ endpoint["svc_a"] = {Ok200}
    /\ endpoint["svc_b"] = {Timeout}
    /\ \A l \in Loops \ {1} : loop_pc[l] = "absent"
    /\ loop_pc[1] = "sleeping"
    /\ cycles[1] = 3

C5_Scenario ==
    ScenarioAfterThreeCycles =>
        /\ DOMAIN get_all_server_status = {"svc_a", "svc_b"}
        /\ get_all_server_status["svc_a"] = TRUE
        /\ get_all_server_status["svc_b"] = FALSE
        /\ uptime_stats["svc_b"].consecutive_failures = 3
        /\ Cardinality({i \in 1..Len(alerts) : alerts[i].type = "server_down"}) = 1
        /\ \A i \in 1..Len(alerts) :
              alerts[i].type = "server_down" => alerts[i].message.names = <<"svc_b">>

C5_Witness == ScenarioAfterThreeCycles

\* C6: for every target, after N >= 1 failing probes followed by one
\* successful probe (the target's first), consecutive_failures = 0,
\* total_checks = N + 1 and successful_checks = 1.
FailuresThenOneSuccess(s) ==
    /\ g_ok[s] = 1
    /\ g_fail_run[s] = 0
    /\ g_probes[s] >= 2

C6_FailuresThenSuccess ==
    \A s \in monitored_servers :
        FailuresThenOneSuccess(s) =>
            /\ uptime_stats[s].consecutive_failures = 0
            /\ uptime_stats[s].total_checks = (g_probes[s] - 1) + 1
            /\ uptime_stats[s].successful_checks = 1

\* N = 3 failures, one of them an HTTP response, then the success
C6_Witness ==
    \E s \in monitored_servers :
        /\ FailuresThenOneSuccess(s)
        /\ g_probes[s] = 4
        /\ Len(response_times[s]) = 2

\* C7: for every target, consecutive_failures equals the number of failing
\* probes (of any kind) since the target's last successful probe.
C7_ConsecutiveFailures ==
    \A s \in monitored_servers : uptime_stats[s].consecutive_failures = g_fail_run[s]

\* two failures in a row, one a non-200 response and one an exception
C7_Witness ==
    \E s \in monitored_servers :
        /\ g_fail_run[s] = 2
        /\ g_probes[s] = 2
        /\ Len(response_times[s]) = 1

\* C8: for every target successful_checks <= total_checks, in every state.
C8_SuccessfulAtMostTotal ==
    \A s \in monitored_servers :
        uptime_stats[s].successful_checks <= uptime_stats[s].total_checks

\* successes and failures recorded by two loops around a restart
C8_Witness ==
    /\ \E c \in Calls : restart_pc[c] = "returned"
    /\ \E s \in monitored_servers :
          /\ uptime_stats[s].successful_checks >= 1
          /\ uptime_stats[s].total_checks > uptime_stats[s].successful_checks
    /\ Cardinality({l \in Loops : cycles[l] >= 1}) >= 2

\* C9: the step that ends a poll cycle appends exactly one
\* critical_services_down alert naming exactly the registered critical
\* targets that are unhealthy at that moment, or no alert if there is none.
CriticalTier == {"stripe_api", "payment_processor"}

CriticalDownNow == {s \in monitored_servers \cap CriticalTier : ~server_status[s]}

CriticalAlerts(list) ==
    Cardinality({i \in 1..Len(list) : list[i].type = "critical_services_down"})

C9_CriticalEscalation ==
    [][IF \E l \in Loops : cycles'[l] = cycles[l] + 1
       THEN IF CriticalDownNow = {}
            THEN alerts' = alerts
            ELSE /\ Len(alerts') = Min(Len(alerts) + 1, 100)
                 /\ SubSeq(alerts', 1, Len(alerts') - 1) = LastN(alerts, 99)
                 /\ alerts'[Len(alerts')].type = "critical_services_down"
                 /\ Range(alerts'[Len(alerts')].message.names) = CriticalDownNow
                 /\ Len(alerts'[Len(alerts')].message.names) = Cardinality(CriticalDownNow)
       ELSE CriticalAlerts(alerts') <= CriticalAlerts(alerts)]_vars

\* an aggregate alert naming both critical targets, and a cycle that ended
\* with one critical target down and one healthy
C9_Witness ==
    /\ \E i \in 1..Len(alerts) :
          /\ alerts[i].type = "critical_services_down"
          /\ Len(alerts[i].message.names) = 2
    /\ \E i \in 1..Len(alerts) :
          /\ alerts[i].type = "critical_services_down"
          /\ Len(alerts[i].message.names) = 1

\* C10: each monitor's alert list holds the most recent min(n, 100) of the n
\* alerts appended to it, in append order (never more than 100: after 101
\* appends the first alert is gone and the 101st is there).
MostRecent(list, n) ==
    /\ Len(list) = Min(n, 100)
    /\ \A i \in 1..Len(list) : list[i].message.n = n - Len(list) + i

C10_AlertListBounded ==
    /\ MostRecent(alerts, drv_n)
    /\ MostRecent(pv_alerts, pv_drv_n)
    /\ Len(alerts) <= 100
    /\ Len(pv_alerts) <= 100

C10_Witness ==
    /\ drv_n = 101
    /\ pv_drv_n = 101
    /\ alerts[1].message.n = 2
    /\ alerts[100].message.n = 101
    /\ pv_alerts[1].message.n = 2
    /\ pv_alerts[100].message.n = 101

\* C11: get_alerts returns, in append order, exactly the retained alerts
\* that are at most 24 hours old (one exactly 24 hours old included).
Age(alert) == now - (alert.timestamp.date * 24 + alert.timestamp.time)

C11_WindowInclusive ==
    /\ get_alerts = SelectSeq(alerts, LAMBDA a : Age(a) <= 24)
    /\ pv_get_alerts = SelectSeq(pv_alerts, LAMBDA a : Age(a) <= 24)

\* C11 as amended: get_alerts returns, in append order, exactly the retained
\* alerts that are less than 24 hours old: one 25 hours old or exactly 24
\* hours old is left out, one 1 hour old is returned.
C11_WindowStrict ==
    /\ get_alerts = SelectSeq(alerts, LAMBDA a : Age(a) < 24)
    /\ pv_get_alerts = SelectSeq(pv_alerts, LAMBDA a : Age(a) < 24)

\* an alert exactly 24 hours old is left out, one an hour old is returned
C11_Witness ==
    /\ Len(alerts) = 2
    /\ Age(alerts[1]) = 24
    /\ Age(alerts[2]) = 1
    /\ get_alerts = <<alerts[2]>>

\* C12: every alert appended by either monitor carries the severity one rule
\* gives its type tag: critical if the tag contains "critical" or "down",
\* otherwise high if it contains "failed", otherwise medium.
OneRuleSeverity(alert_type) ==
    IF "critical" \in Keywords(alert_type) \/ "down" \in Keywords(alert_type)
    THEN "critical"
    ELSE IF "failed" \in Keywords(alert_type) THEN "high" ELSE "medium"

C12_OneSeverityRule ==
    /\ \A i \in 1..Len(alerts) : alerts[i].severity = OneRuleSeverity(alerts[i].type)
    /\ \A i \in 1..Len(pv_alerts) :
          pv_alerts[i].severity = OneRuleSeverity(pv_alerts[i].type)

\* all three severities occur, from both monitors
C12_Witness ==
    /\ \E i \in 1..Len(alerts) :
          alerts[i].type = "server_unhealthy" /\ alerts[i].severity = "medium"
    /\ \E i \in 1..Len(alerts) :
          alerts[i].type = "server_down" /\ alerts[i].severity = "critical"
    /\ \E i \in 1..Len(alerts) :
          alerts[i].type = "critical_services_down" /\ alerts[i].severity = "critical"
    /\ \E i \in 1..Len(pv_alerts) :
          pv_alerts[i].type = "payment_verification_failed"
          /\ pv_alerts[i].severity = "high"
    /\ \E i \in 1..Len(pv_alerts) :
          pv_alerts[i].type = "stripe_verification_failed"
          /\ pv_alerts[i].severity = "high"

\* C13: is_automation_active() never raises and returns true iff
\* total_processed > 0 and 5 * automated_count > 4 * total_processed: false
\* with zero cycles, false at exactly 0.8, true at 0.81, false at 0.79.
C13_AutomationActive ==
    LET a == payment_stats.automated_count
        t == payment_stats.total_processed
        result == is_automation_active
    IN /\ result.error = "none"
       /\ result.value <=> (t > 0 /\ 5 * a > 4 * t)
       /\ t = 0 => ~result.value
       /\ (a = 4 /\ t = 5) => ~result.value
       /\ (a = 80 /\ t = 100) => ~result.value
       /\ (a = 81 /\ t = 100) => result.value
       /\ (a = 79 /\ t = 100) => ~result.value

\* a ratio of 0.81 after 100 cycles: active
C13_Witness ==
    /\ payment_stats.automated_count = 81
    /\ payment_stats.total_processed = 100
    /\ is_automation_active.value

\* C14: a verification cycle that completes adds 1 to total_processed, and
\* adds 1 to automated_count if the wallet check passed and the DeFi check
\* passed and (the Stripe check passed or no Stripe key is configured);
\* otherwise it adds 1 to failed_count.
Completes(e) == verify_pc[e] = "defi_request" /\ verify_pc'[e] = "done"

C14_CycleVerdict ==
    [][\A e \in Verifications :
          Completes(e) =>
             LET passed == /\ g_last'.wallet_status
                           /\ g_last'.defi_status
                           /\ (g_last'.stripe_status \/ ~stripe_secret_key)
                 automated == payment_stats'.automated_count
                                 - payment_stats.automated_count
                 failed == payment_stats'.failed_count - payment_stats.failed_count
             IN /\ payment_stats'.total_processed = payment_stats.total_processed + 1
                /\ passed => (automated = 1 /\ failed = 0)
                /\ ~passed => (automated = 0 /\ failed = 1)]_vars

\* without a Stripe key, a cycle whose Stripe check did not pass has counted
\* as automated, after one that counted as failed
C14_Witness ==
    /\ ~stripe_secret_key
    /\ ~g_last.stripe_status /\ g_last.wallet_status /\ g_last.defi_status
    /\ payment_stats.automated_count = 1
    /\ payment_stats.failed_count = 1
    /\ payment_stats.total_processed = 2

\* C15: a verification cycle in which a sub-check raised an error is counted
\* as failed (failed_count increases, automated_count does not) and has
\* appended an alert to the verifier's alert list.
C15_SubCheckErrorAlerts ==
    [][\A e \in Verifications :
          (Completes(e) /\ g_last'.raised # {}) =>
             /\ payment_stats'.failed_count = payment_stats.failed_count + 1
             /\ payment_stats'.automated_count = payment_stats.automated_count
             /\ g_last'.alerted >= 1]_vars

\* C16: while is_running stays true no polling loop leaves its while loop,
\* and after a cycle that raised an exception the loop, backing off, begins
\* a further cycle (unless the run has no cycle left).
VerificationsUsed == PvOps >= MaxVerifications

C16_LoopsKeepPolling ==
    /\ [](\A l \in Loops : is_running => loop_pc[l] # "exited")
    /\ [](\A l \in PvLoops : pv_is_running => pv_loop_pc[l] # "exited")
    /\ \A l \in Loops :
          [](loop_pc[l] = "backoff" => <>(loop_pc[l] = "probing" \/ Ops >= MaxOps))
    /\ \A l \in PvLoops :
          [](pv_loop_pc[l] = "backoff"
                => <>(pv_loop_pc[l] = "verifying" \/ VerificationsUsed))

\* both loops have begun their second cycle after a first one that raised
\* (it left no critical_services_down alert, no payment_methods)
C16_Witness ==
    /\ is_running
    /\ \E l \in Loops : loop_pc[l] = "probing" /\ cycles[l] = 1
    /\ \A i \in 1..Len(alerts) : alerts[i].type # "critical_services_down"
    /\ pv_is_running
    /\ \E l \in PvLoops : pv_loop_pc[l] = "verifying"
    /\ payment_methods = <<>>
    /\ payment_stats.total_processed = 1

\* C17: a probe that fails (by timeout, connection error, any other error, or
\* a non-200 answer) leaves its loop in its cycle, is recorded as unhealthy
\* for its own target, changes nothing of any other target and stops no
\* other probe; and a cycle ends only when every target's probe is recorded.
ProbeFails(l, s) ==
    /\ probe[l][s] = "inflight"
    /\ probe'[l][s] = "done"
    /\ g_fail_run'[s] = g_fail_run[s] + 1

C17_ProbeErrorContained ==
    [][/\ \A l \in Loops : \A s \in monitored_servers :
             ProbeFails(l, s) =>
                /\ loop_pc' = loop_pc
                /\ ~server_status'[s]
                /\ uptime_stats'[s].total_checks = uptime_stats[s].total_checks + 1
                /\ uptime_stats'[s].successful_checks = uptime_stats[s].successful_checks
                /\ \A u \in monitored_servers \ {s} :
                      /\ server_status'[u] = server_status[u]
                      /\ uptime_stats'[u] = uptime_stats[u]
                      /\ response_times'[u] = response_times[u]
                      /\ probe'[l][u] = probe[l][u]
       /\ \A l \in Loops :
             cycles'[l] = cycles[l] + 1 =>
                \A s \in monitored_servers : probe[l][s] = "done"]_vars

\* a cycle has ended in which stripe_api timed out and payment_processor
\* answered 200
C17_Witness ==
    /\ monitored_servers = {"stripe_api", "payment_processor"}
    /\ \E l \in Loops : cycles[l] = 1 /\ loop_pc[l] = "sleeping"
    /\ g_probes["stripe_api"] = 1
    /\ ~server_status["stripe_api"]
    /\ response_times["stripe_api"] = <<>>
    /\ uptime_stats["stripe_api"].total_checks = 1
    /\ server_status["payment_processor"]
    /\ uptime_stats["payment_processor"].total_checks = 1

\* C18: once a probe of a target has completed, server_status of the target
\* is true iff the probe that completed last received HTTP 200; this is what
\* get_all_server_status reports.
ProbeCompletes(s) == g_probes'[s] = g_probes[s] + 1

C18_StatusIsLastProbe ==
    [][\A s \in monitored_servers :
          /\ ProbeCompletes(s) =>
                (server_status'[s] <=> g_ok'[s] = g_ok[s] + 1)
          /\ g_probes'[s] > 0 =>
                (get_all_server_status'[s] <=> g_fail_run'[s] = 0)]_vars

\* stripe_api was healthy and its last probe timed out; payment_processor
\* had timed out and its last probe received 200
C18_Witness ==
    /\ monitored_servers = {"stripe_api", "payment_processor"}
    /\ g_probes["stripe_api"] = 2 /\ g_ok["stripe_api"] = 1
    /\ g_fail_run["stripe_api"] = 1
    /\ ~get_all_server_status["stripe_api"]
    /\ g_probes["payment_processor"] = 2 /\ g_ok["payment_processor"] = 1
    /\ g_fail_run["payment_processor"] = 0
    /\ get_all_server_status["payment_processor"]

\* C19: for a target with no checks, and for a name that is not registered,
\* get_server_uptime and the uptime_percentage of get_detailed_status are 0
\* and nothing raises; for a target with checks both are exactly
\* successful_checks / total_checks as a percentage.
QueriedNames == monitored_servers \cup {"unregistered"}

UptimeGuarded ==
    /\ \A name \in QueriedNames : get_server_uptime(name).error = "none"
    /\ \A s \in monitored_servers :
          get_detailed_status[s].uptime_percentage.error = "none"
    /\ get_server_uptime("unregistered").num = 0
    /\ \A s \in monitored_servers :
          uptime_stats[s].total_checks = 0 =>
             /\ get_server_uptime(s).num = 0
             /\ get_detailed_status[s].uptime_percentage.num = 0

\* x is exactly 100 * successful / total
IsPercentage(x, successful, total) == x.num * total = 100 * successful * x.den

C19_UptimeExact ==
    /\ UptimeGuarded
    /\ \A s \in monitored_servers :
          LET stats == uptime_stats[s]
          IN stats.total_checks > 0 =>
                /\ IsPercentage(get_server_uptime(s),
                                stats.successful_checks, stats.total_checks)
                /\ IsPercentage(get_detailed_status[s].uptime_percentage,
                                stats.successful_checks, stats.total_checks)

\* C19 as amended: the same, except that for a target with checks the
\* uptime_percentage of get_detailed_status is that percentage rounded to
\* two decimal places (get_server_uptime returns it unrounded).
IsPercentageRounded(x, successful, total) ==
    LET diff == x.num * total - 100 * successful * x.den
    IN /\ x.den = 100
       /\ 2 * diff <= total
       /\ 2 * diff >= 0 - total

C19_UptimeRounded ==
    /\ UptimeGuarded
    /\ \A s \in monitored_servers :
          LET stats == uptime_stats[s]
          IN stats.total_checks > 0 =>
                /\ IsPercentage(get_server_uptime(s),
                                stats.successful_checks, stats.total_checks)
                /\ IsPercentageRounded(get_detailed_status[s].uptime_percentage,
                                       stats.successful_checks, stats.total_checks)

\* a target at 1 success in 3 checks: 100/3 from get_server_uptime, 33.33
\* in the detailed status; an unregistered name gives 0
C19_Witness ==
    /\ \E s \in monitored_servers :
          /\ uptime_stats[s].total_checks = 3
          /\ uptime_stats[s].successful_checks = 1
          /\ get_detailed_status[s].uptime_percentage.num = 3333
          /\ get_server_uptime(s).num = 100 /\ get_server_uptime(s).den = 3
    /\ get_server_uptime("unregistered") = Zero

\* C20: get_all_server_status has exactly the registered target names as
\* keys, reports a target that has never been probed as not healthy, and no
\* query (get_server_uptime, get_detailed_status, get_metrics) raises,
\* whatever the number of checks.
C20_StatusMapTotal ==
    /\ DOMAIN get_all_server_status = monitored_servers
    /\ \A s \in monitored_servers :
          g_probes[s] = 0 =>
             /\ ~get_all_server_status[s]
             /\ get_detailed_status[s].status = "unhealthy"
    /\ \A s \in monitored_servers :
          /\ get_server_uptime(s).error = "none"
          /\ get_detailed_status[s].uptime_percentage.error = "none"
          /\ get_detailed_status[s].average_response_time.error = "none"
    /\ get_metrics.system_health_percentage.error = "none"
    /\ get_metrics.critical_services_health.error = "none"

\* the first cycle is under way: one target has been probed and is healthy,
\* the other has not been probed yet
C20_Witness ==
    /\ \E s \in monitored_servers :
          g_probes[s] = 1 /\ get_all_server_status[s]
    /\ \E s \in monitored_servers :
          /\ g_probes[s] = 0
          /\ uptime_stats[s].total_checks = 0
          /\ ~get_all_server_status[s]
          /\ get_detailed_status[s].uptime_percentage.num = 0

\* C21: the steps of restart() (of either monitor, as POST /restart-monitoring
\* runs them) leave uptime_stats, server_status, response_times, both alert
\* lists, payment_stats and payment_methods as they were.
RestartStep ==
    \/ \E c \in Calls : restart_pc'[c] # restart_pc[c]
    \/ \E c \in PvCalls : pv_restart_pc'[c] # pv_restart_pc[c]

C21_RestartKeepsHistory ==
    [][RestartStep =>
          /\ uptime_stats' = uptime_stats
          /\ server_status' = server_status
          /\ response_times' = response_times
          /\ alerts' = alerts
          /\ pv_alerts' = pv_alerts
          /\ payment_stats' = payment_stats
          /\ payment_methods' = payment_methods]_vars

\* both restart() calls of a handler have returned, and both monitors still
\* hold what they gathered
C21_Witness ==
    \E c \in Calls \cap PvCalls :
        /\ restart_pc[c] = "returned"
        /\ pv_restart_pc[c] = "returned"
        /\ \E s \in monitored_servers :
              /\ uptime_stats[s].total_checks > 0
              /\ Len(response_times[s]) > 0
        /\ Len(alerts) > 0
        /\ Len(pv_alerts) > 0
        /\ payment_stats.total_processed > 0

\* C22: POST /verify-payments runs one execution of verify_all_payments beside
\* the loop: the step that begins it begins that execution alone, the step
\* that completes it counts one verification, and neither changes is_running,
\* any loop task's position or the execution a loop task awaits.
TriggeredBegins(e) ==
    /\ verify_pc[e] = "idle"
    /\ verify_pc'[e] = "defi_request"
    /\ \A l \in PvLoops : pv_loop_exec'[l] # e

TriggeredCompletes(e) ==
    /\ verify_pc[e] = "defi_request"
    /\ verify_pc'[e] = "done"
    /\ \A l \in PvLoops : pv_loop_exec[l] # e

C22_TriggerOutOfBand ==
    [][\A e \in Verifications :
          /\ TriggeredBegins(e) \/ TriggeredCompletes(e) =>
                /\ pv_is_running' = pv_is_running
                /\ pv_loop_pc' = pv_loop_pc
                /\ pv_loop_exec' = pv_loop_exec
                /\ pv_restart_pc' = pv_restart_pc
                /\ \A d \in Verifications \ {e} : verify_pc'[d] = verify_pc[d]
          /\ TriggeredBegins(e) => payment_stats' = payment_stats
          /\ TriggeredCompletes(e) =>
                payment_stats'.total_processed = payment_stats.total_processed + 1]_vars

\* a triggered execution has completed while the only loop task is still in
\* the execution it began before
C22_Witness ==
    /\ \A c \in PvCalls : pv_restart_pc[c] = "idle"
    /\ pv_is_running
    /\ pv_loop_pc[1] = "verifying"
    /\ pv_loop_exec[1] = 1
    /\ verify_pc[2] = "done"
    /\ payment_stats.total_processed = 1

FailedLast ==
    SelectSeq(critical_services, LAMBDA s : s \in monitored_servers /\ g_fail_run[s] > 0)

C24_CriticalCheckAfterProbes ==
    [][\A l \in Loops :
          cycles'[l] = cycles[l] + 1 =>
             /\ \A s \in monitored_servers :
                   /\ probe[l][s] = "done"
                   /\ g_probes[s] >= cycles[l] + 1
                   /\ uptime_stats[s].total_checks = g_probes[s]
             /\ IF FailedLast # <<>>
                THEN /\ Len(alerts') = Len(alerts) + 1
                     /\ alerts'[Len(alerts')].type = "critical_services_down"
                     /\ alerts'[Len(alerts')].message.names = FailedLast
                ELSE alerts' = alerts]_vars

\* a critical target answered 200 in the first cycle and failed in the
\* second, whose check then reported it
C24_Witness ==
    \E l \in Loops, s \in monitored_servers :
        /\ cycles[l] = 2
        /\ loop_pc[l] = "sleeping"
        /\ g_probes[s] = 2
        /\ g_ok[s] = 1
        /\ g_fail_run[s] = 1
        /\ Len(alerts) > 0
        /\ alerts[Len(alerts)].type = "critical_services_down"
        /\ alerts[Len(alerts)].message.names = <<s>>

\* C25: in every state (each is one a reader can run in, between two steps
\* of the probes) and for every target, the status flag, the counters and
\* the timestamps account for the same probes, those completed so far:
\* server_status is true only with consecutive_failures = 0, and exactly
\* when the last completed probe got 200.
C25_ProbeOutcomeAtomic ==
    \A s \in monitored_servers :
        LET stats == uptime_stats[s]
        IN /\ server_status[s] => stats.consecutive_failures = 0
           /\ server_status[s] <=> (g_probes[s] > 0 /\ g_fail_run[s] = 0)
           /\ stats.total_checks = g_probes[s]
           /\ stats.successful_checks = g_ok[s]
           /\ stats.consecutive_failures = g_fail_run[s]
           /\ (stats.last_check = NoTime) <=> (g_probes[s] = 0)
           /\ (stats.last_success = NoTime) <=> (g_ok[s] = 0)
           /\ g_ok[s] <= Len(response_times[s])
           /\ Len(response_times[s]) <= g_probes[s]

\* in the middle of a loop's second cycle: one target's probe is recorded
\* (healthy, after a failure), another's is still in flight
C25_Witness ==
    \E l \in Loops, s \in monitored_servers, u \in monitored_servers :
        /\ probe[l][s] = "done"
        /\ probe[l][u] = "inflight"
        /\ server_status[s]
        /\ uptime_stats[s].total_checks = 2
        /\ uptime_stats[s].successful_checks = 1
        /\ uptime_stats[u].total_checks = 1
        /\ ~server_status[u]

\* C26: every alert a step issues (the server_unhealthy alert of a probe
\* that got a non-200 answer, the server_down alert of a task created at the
\* third failure, the critical_services_down alert of a cycle's end) is
\* appended in that step to the list as it is, which keeps every earlier
\* alert but, at capacity, the oldest; alert tasks run in the order they
\* were created, none is dropped; and the list never exceeds 100 alerts.
AppendedOne(list, alert_type, result) ==
    /\ Len(result) = Min(Len(list) + 1, AlertCapacity)
    /\ SubSeq(result, 1, Len(result) - 1) = LastN(list, AlertCapacity - 1)
    /\ result[Len(result)].type = alert_type

UnhealthyAnswer(s) ==
    /\ g_probes'[s] = g_probes[s] + 1
    /\ Len(response_times'[s]) = Len(response_times[s]) + 1
    /\ g_fail_run'[s] = g_fail_run[s] + 1

C26_AlertAppendsSerialized ==
    [][/\ Len(alerts') <= AlertCapacity
       /\ \A s \in monitored_servers :
             UnhealthyAnswer(s) => AppendedOne(alerts, "server_unhealthy", alerts')
       /\ IF Len(pending') < Len(pending)
          THEN /\ pending' = Tail(pending)
               /\ AppendedOne(alerts, "server_down", alerts')
               /\ alerts'[Len(alerts')].message = Head(pending).message
          ELSE SubSeq(pending', 1, Len(pending)) = pending
       /\ (\E l \in Loops : cycles'[l] = cycles[l] + 1) /\ DownServices(server_status) # <<>>
             => AppendedOne(alerts, "critical_services_down", alerts')
       /\ \/ alerts' = alerts
          \/ \E type \in Range(ServerAlertTypes) : AppendedOne(alerts, type, alerts')]_vars

\* one cycle has issued alerts from all three sources: a probe's inline
\* alert, a task created by another probe, and the critical check
C26_Witness ==
    \E l \in Loops :
        /\ cycles[l] = 3
        /\ loop_pc[l] = "sleeping"
        /\ Len(alerts) >= 3
        /\ alerts[Len(alerts)].type = "critical_services_down"
        /\ {alerts[Len(alerts) - 1].type, alerts[Len(alerts) - 2].type}
              = {"server_down", "server_unhealthy"}

\* C27: the step recording a failing probe of a target (a timeout, a
\* connection error, another exception or a non-200 answer) leaves the
\* target's response_times as it was.
C27_FailureKeepsLatencies ==
    [][\A s \in monitored_servers :
          g_fail_run'[s] = g_fail_run[s] + 1 => response_times'[s] = response_times[s]]_vars

\* C28: after n probes of a target that got an answer, the k-th measuring k,
\* response_times of the target is the last min(n, 50) of 1..n in order:
\* never more than 50 samples, the oldest dropped first.
C28_LatencyRing ==
    \A s \in monitored_servers :
        LET n == g_probes[s]
            kept == Min(n, ResponseTimeCapacity)
        IN /\ Len(response_times[s]) <= ResponseTimeCapacity
           /\ response_times[s] = [i \in 1..kept |-> n - kept + i]

\* 52 samples pushed, the two oldest dropped
C28_Witness ==
    \E s \in monitored_servers :
        /\ g_probes[s] = 52
        /\ Len(response_times[s]) = 50
        /\ response_times[s][1] = 3
        /\ response_times[s][50] = 52

\* C29: the step recording a probe adds exactly 1 to total_checks of its
\* target and leaves the other targets' as they were; and while only the
\* loop task made at startup exists, every registered target has as many
\* checks as that loop has completed cycles, plus the one of the cycle in
\* progress if its probe of the target is recorded.
SingleLoop == \A l \in Loops \ {1} : loop_pc[l] = "absent"

ChecksOfLoop(s) ==
    cycles[1] + (IF loop_pc[1] = "probing" /\ probe[1][s] = "done" THEN 1 ELSE 0)

C29_OneCheckPerCycle ==
    [][/\ \A s \in monitored_servers :
             uptime_stats'[s].total_checks =
                uptime_stats[s].total_checks + (IF ProbeCompletes(s) THEN 1 ELSE 0)
       /\ \A l \in Loops :
             loop_pc[l] # "probing" /\ loop_pc'[l] = "probing" =>
                \A s \in monitored_servers : probe'[l][s] = "inflight"
       /\ SingleLoop' => \A s \in monitored_servers :
                            uptime_stats'[s].total_checks = ChecksOfLoop(s)']_vars

\* three cycles of the only loop over several targets, with successes and
\* failures of both kinds
C29_Witness ==
    /\ SingleLoop
    /\ loop_pc[1] = "sleeping"
    /\ cycles[1] = 3
    /\ Cardinality(monitored_servers) = 2
    /\ \A s \in monitored_servers : uptime_stats[s].total_checks = 3
    /\ \E s \in monitored_servers : g_ok[s] = 1 /\ g_fail_run[s] = 2
    /\ \E s \in monitored_servers : g_ok[s] = 2 /\ Len(response_times[s]) = 3

\* C30: the step recording an unhealthy probe of a registered critical
\* target issues a per-target alert for it (appended at once, or by a task
\* that runs before the cycle ends), and the step ending a cycle appends the
\* aggregate alert naming every registered critical target whose last
\* recorded probe failed.
CriticalRegistered == Range(critical_services) \cap monitored_servers

ProbeUnhealthy(s) ==
    /\ g_probes'[s] = g_probes[s] + 1
    /\ g_fail_run'[s] = g_fail_run[s] + 1

UnhealthyAlerted(s) ==
    /\ AppendedOne(alerts, "server_unhealthy", alerts')
    /\ alerts'[Len(alerts')].message.names = <<s>>

AggregateAtCycleEnd ==
    \A l \in Loops :
        cycles'[l] = cycles[l] + 1 =>
           /\ \A i \in 1..Len(pending) : pending[i].task # l
           /\ FailedLast # <<>> =>
                 /\ AppendedOne(alerts, "critical_services_down", alerts')
                 /\ alerts'[Len(alerts')].message.names = FailedLast

C30_DoubleAlertAlways ==
    [][/\ \A s \in CriticalRegistered :
             ProbeUnhealthy(s) => UnhealthyAlerted(s) \/ DownScheduled(s)
       /\ AggregateAtCycleEnd]_vars

\* C30 (amended): as above, the per-target alert being issued when the probe
\* got a non-200 answer (server_unhealthy) or raised and brought
\* consecutive_failures to 3 (server_down); a probe that raised below that
\* threshold issues no alert of its own.
C30_DoubleAlertWhenDue ==
    [][/\ \A s \in CriticalRegistered :
             ProbeUnhealthy(s) =>
                IF UnhealthyAnswer(s)
                THEN UnhealthyAlerted(s) /\ pending' = pending
                ELSE /\ alerts' = alerts
                     /\ uptime_stats'[s].consecutive_failures = FailureThreshold
                           => DownScheduled(s)
                     /\ uptime_stats'[s].consecutive_failures < FailureThreshold
                           => pending' = pending
       /\ AggregateAtCycleEnd]_vars

\* a first cycle in which the critical target timed out (aggregate alert
\* alone), a second in which it answered 500 (server_unhealthy and the
\* aggregate), a third in which it raised for the third failure in a row
\* (server_down and the aggregate)
C30_Witness ==
    /\ monitored_servers = {"stripe_api"}
    /\ Len(alerts) = 5
    /\ alerts[1].type = "critical_services_down"
    /\ alerts[2].type = "server_unhealthy"
    /\ alerts[3].type = "critical_services_down"
    /\ alerts[4].type = "server_down"
    /\ alerts[5].type = "critical_services_down"
    /\ \E l \in Loops : cycles[l] = 3

\* C31: an execution of verify_all_payments that begins goes on to the DeFi
\* sub-check whatever the Stripe and wallet sub-checks raised, and when it
\* completes, whatever any of the three raised, total_processed has grown by
\* exactly 1 and so has exactly one of automated_count and failed_count.
Begins(e) == verify_pc[e] = "idle" /\ verify_pc'[e] # "idle"

C31_SubCheckErrorContained ==
    [][\A e \in Verifications :
          /\ Begins(e) =>
                /\ verify_pc'[e] = "defi_request"
                /\ payment_stats' = payment_stats
          /\ Completes(e) =>
                /\ g_raised[e] \subseteq g_last'.raised
                /\ payment_stats'.total_processed = payment_stats.total_processed + 1
                /\ payment_stats'.automated_count + payment_stats'.failed_count
                      = payment_stats.automated_count + payment_stats.failed_count + 1
                /\ payment_stats'.automated_count >= payment_stats.automated_count
                /\ payment_stats'.failed_count >= payment_stats.failed_count]_vars

\* the only execution so far has completed and been tallied with all three
\* sub-checks having raised
C31_Witness ==
    /\ g_last.raised = {"stripe", "wallet", "defi"}
    /\ payment_stats.total_processed = 1
    /\ payment_stats.failed_count = 1
    /\ Cardinality({e \in Verifications : verify_pc[e] # "idle"}) = 1

\* C32: the step recording a probe of a target leaves server_status,
\* uptime_stats and response_times of every other target as they were, and
\* no step of the server monitor's loops (a cycle beginning, a probe being
\* recorded, a cycle ending) changes payment_stats or payment_methods.
ServerLoopStep ==
    \/ \E s \in monitored_servers : ProbeCompletes(s)
    \/ loop_pc' # loop_pc
    \/ cycles' # cycles

Answers == reply.op = "none" /\ reply'.op # "none"

Keeps(list, result) ==
    Len(list) < AlertCapacity =>
        /\ Len(result) >= Len(list)
        /\ SubSeq(result, 1, Len(list)) = list

C33_QueriesReadOnly ==
    [][/\ Answers =>
             /\ UNCHANGED <<is_running, server_status, uptime_stats, response_times,
                            alerts>>
             /\ UNCHANGED <<pv_alerts, payment_stats, payment_methods, pv_is_running>>
             /\ UNCHANGED <<loop_pc, pv_loop_pc, pending>>
       /\ Keeps(alerts, alerts')
       /\ Keeps(pv_alerts, pv_alerts')]_vars

\* get_alerts has just left out an alert 25 hours old and returned a newer
\* one; the old alert is still stored
C33_Witness ==
    /\ reply.op = "get_alerts"
    /\ Len(alerts) = 2
    /\ Age(alerts[1]) = 25
    /\ reply.value = <<alerts[2]>>

\* C34: in every reachable state of the payment verifier total_processed
\* equals automated_count + failed_count, executions of verify_all_payments
\* that end in its except branch included.
C34_TotalIsSum ==
    payment_stats.total_processed
        = payment_stats.automated_count + payment_stats.failed_count


\* C35: executions of verify_all_payments that overlap at the DeFi request
\* (the loop's and a triggered one, or those of two loops) lose no update:
\* total_processed is the number of executions that have completed their
\* statistics update, and so are the two verdict counters together.
Completed == {e \in Verifications : verify_pc[e] = "done"}

C35_NoLostUpdate ==
    /\ payment_stats.total_processed = Cardinality(Completed)
    /\ payment_stats.automated_count + payment_stats.failed_count = Cardinality(Completed)

\* the second execution has completed while the first, begun before it, is
\* still waiting for its DeFi request
C35_Witness ==
    /\ verify_pc[1] = "defi_request"
    /\ verify_pc[2] = "done"
    /\ payment_stats.total_processed = 1


\* C36: the probe whose failure brings consecutive_failures to the threshold
\* or beyond appends nothing itself: it queues a task holding a server_down
\* alert whose message states the count that probe has just recorded.
\* Queued tasks are never changed, they run in the order of their creation,
\* each appending its own alert as the newest one, whatever probes have
\* completed in between; and while the event loop keeps running every
\* queued alert is eventually in the list.
DownMessage(n) == Msg(<<"stripe_api">>, n)

Queues ==
    /\ Len(pending') = Len(pending) + 1
    /\ SubSeq(pending', 1, Len(pending)) = pending
    /\ alerts' = alerts
    /\ \E s \in monitored_servers :
          /\ uptime_stats'[s].consecutive_failures = uptime_stats[s].consecutive_failures + 1
          /\ pending'[Len(pending')].type = "server_down"
          /\ pending'[Len(pending')].message = Msg(<<s>>, uptime_stats'[s].consecutive_failures)

Runs ==
    /\ pending # <<>>
    /\ pending' = Tail(pending)
    /\ Len(alerts') = Len(alerts) + 1
    /\ SubSeq(alerts', 1, Len(alerts)) = alerts
    /\ alerts'[Len(alerts')].type = "server_down"
    /\ alerts'[Len(alerts')].message = Head(pending).message
    /\ UNCHANGED uptime_stats

C36_ServerDownDeferred ==
    /\ [][/\ pending' # pending => Queues \/ Runs
          /\ \A s \in monitored_servers :
                (/\ uptime_stats'[s].consecutive_failures
                        > uptime_stats[s].consecutive_failures
                 /\ uptime_stats'[s].consecutive_failures >= FailureThreshold)
                    => Queues]_vars
    /\ \A n \in FailureThreshold..MaxDownOps :
          (\E i \in 1..Len(pending) : pending[i].message = DownMessage(n))
             ~> (\E j \in 1..Len(alerts) :
                    alerts[j].type = "server_down" /\ alerts[j].message = DownMessage(n))

\* the alert of the third failure has just been appended although the
\* fourth failure, of another loop's probe, is already recorded and queued
C36_Witness ==
    /\ alerts # <<>>
    /\ alerts[Len(alerts)].type = "server_down"
    /\ alerts[Len(alerts)].message = DownMessage(3)
    /\ uptime_stats["stripe_api"].consecutive_failures = 4
    /\ Len(pending) = 1
    /\ pending[1].message = DownMessage(4)


\* C37 (as stated): is_running is false in every state of the pause inside
\* restart(), the start of a scheduled loop sets it, and after every
\* restart() call a new loop of that monitor begins a cycle (unless the run
\* has no cycle left).
Paused(c) == restart_pc[c] = "sleeping"

PvPaused(c) == pv_restart_pc[c] = "sleeping"

BudgetUsed == ~RestartBudget

StartSetsFlag ==
    /\ \A l \in Loops :
          loop_pc[l] = "scheduled" /\ loop_pc'[l] # "scheduled" => is_running'
    /\ \A l \in PvLoops :
          pv_loop_pc[l] = "scheduled" /\ pv_loop_pc'[l] # "scheduled" => pv_is_running'

\* Every restart() call has returned, the loop it scheduled has started (and
\* with that begun a cycle), and the monitor is running.
Restarted ==
    /\ \A c \in Calls : ~Paused(c)
    /\ \A l \in Loops : loop_pc[l] # "scheduled"
    /\ is_running

PvRestarted ==
    /\ \A c \in PvCalls : ~PvPaused(c)
    /\ \A l \in PvLoops : pv_loop_pc[l] # "scheduled"
    /\ pv_is_running

\* The restart() calls of a run being finitely many, the run settles there.
CycleAfterRestart ==
    <>[](\/ Restarted /\ (PvRestarted \/ VerificationsUsed)
         \/ BudgetUsed)

PauseBegins ==
    /\ \A c \in Calls : restart_pc[c] = "idle" /\ Paused(c)' => ~is_running'
    /\ \A c \in PvCalls : pv_restart_pc[c] = "idle" /\ PvPaused(c)' => ~pv_is_running'

FlagSetInPause ==
    /\ \A c \in Calls :
          Paused(c) /\ Paused(c)' /\ ~is_running /\ is_running'
             => /\ \E b \in Calls \ {c} : restart_pc[b] = "returned"
                /\ \E l \in Loops : loop_pc[l] = "scheduled" /\ loop_pc'[l] = "probing"
    /\ \A c \in PvCalls :
          PvPaused(c) /\ PvPaused(c)' /\ ~pv_is_running /\ pv_is_running'
             => /\ \E b \in PvCalls \ {c} : pv_restart_pc[b] = "returned"
                /\ \E l \in PvLoops :
                      pv_loop_pc[l] = "scheduled" /\ pv_loop_pc'[l] = "verifying"

WouldAlert == DownServices(server_status) # <<>>

C38_SameVerdict == is_critical_service_down <=> WouldAlert


\* C39: the DeFi sub-check reports failure exactly when the dex_connector
\* endpoint is configured and the request to it raises; the execution is
\* counted as automated exactly when the Stripe verdict is true or no key is
\* configured, the wallet verdict is true and that request did not raise,
\* whatever status code the endpoint answered with.
DefiRaised == dex_url /\ reply.value.response = "raises"

C39_DefiFailsOnlyOnError ==
    reply.op = "verify_all_payments" =>
        /\ reply.value.defi_status <=> ~DefiRaised
        /\ reply.value.verdict = "automated"
              <=> /\ reply.value.stripe_status \/ ~stripe_secret_key
                  /\ reply.value.wallet_status
                  /\ ~DefiRaised

\* the configured endpoint answered with a status other than 200 and the
\* execution was counted as automated
C39_Witness ==
    /\ reply.op = "verify_all_payments"
    /\ dex_url
    /\ reply.value.response = "status_other"
    /\ reply.value.defi_status
    /\ reply.value.verdict = "automated"
    /\ payment_stats.automated_count = 1


\* C40: transfer either returns False and changes no wallet, which it does
\* exactly when the amount is not positive, a wallet is missing or the
\* source holds less than the amount; or returns True with the source
\* debited and the destination credited by exactly the amount, the sum of
\* all balances unchanged and no balance negative that was not.
RECURSIVE ExactSum(_, _)
ExactSum(w, S) ==
    IF S = {} THEN 0
    ELSE LET u == CHOOSE u \in S : TRUE IN w[u].balance + ExactSum(w, S \ {u})

Refused(from_user, to_user, amount) ==
    \/ amount <= 0
    \/ from_user \notin DOMAIN wallets
    \/ to_user \notin DOMAIN wallets
    \/ wallets[from_user].balance < amount

Moved(from_user, to_user, amount) ==
    /\ DOMAIN wallets' = DOMAIN wallets
    /\ from_user # to_user =>
          /\ wallets'[from_user].balance = wallets[from_user].balance - amount
          /\ wallets'[to_user].balance = wallets[to_user].balance + amount
    /\ \A u \in DOMAIN wallets \ {from_user, to_user} : wallets'[u] = wallets[u]
    /\ ExactSum(wallets', DOMAIN wallets') = ExactSum(wallets, DOMAIN wallets)
    /\ \A u \in DOMAIN wallets : wallets[u].balance >= 0 => wallets'[u].balance >= 0

C40_TransferAllOrNothing ==
    [][reply'.op = "transfer" =>
          LET call == reply'.value
          IN IF call.result
             THEN /\ ~Refused(call.from_user, call.to_user, call.amount)
                  /\ Moved(call.from_user, call.to_user, call.amount)
             ELSE /\ Refused(call.from_user, call.to_user, call.amount)
                  /\ wallets' = wallets]_vars

====
